---- MODULE Spec2Model ----
(***************************************************************************)
(* Model of the command execution engine: a command is an ordered list of  *)
(* command blocks (CmdBlockWrapper) run against a resource map, the apply  *)
(* command (ApplyCmd) being: read stored states, discover, state sync      *)
(* check, apply, then serialization of the applied and goal states.        *)
(***************************************************************************)
EXTENDS Integers, Sequences, FiniteSets, TLC

\* ------------------------------------------------------------------------
\* Bounds of the model.
MaxCmds == 2        \* commands run in one session
MaxMutations == 1   \* changes of the live world or of the params between commands
MaxFailures == 1    \* item functions that return an error in one command
MaxParamKeys == 3   \* keys of the workspace, profile or flow params
MaxProfiles == 2    \* profiles of the workspace

\* ------------------------------------------------------------------------
\* Flow graph: a sub graph of EnvDeployFlow.
Items == {"app_download", "s3_bucket", "s3_object"}

Edges == {<<"app_download", "s3_object">>, <<"s3_bucket", "s3_object">>}

\* Order in which the items were added to the graph.
StreamOrder(i) ==
  CASE i = "app_download" -> 1
    [] i = "s3_bucket" -> 2
    [] i = "s3_object" -> 3

\* Item states: "s0" is the clean state (nothing exists), the others are the
\* states that params may ask for.
StateClean == "s0"

StatesGoalValues == {"s1", "s2"}

StateValues == {StateClean} \cup StatesGoalValues

\* An item without an entry in a `States` map.
NoEntry == "none"

StatesNew == [i \in Items |-> NoEntry]

\* The items in the order in which they were added to the graph.
ItemsInOrder == [k \in 1..Cardinality(Items) |-> CHOOSE i \in Items : StreamOrder(i) = k]

HasEntry(states, i) == states[i] # NoEntry

\* A serializer that loses the entry written last.
StatesSerializeTruncated(states) ==
  LET ids == SelectSeq(ItemsInOrder, LAMBDA i : HasEntry(states, i))
  IN [k \in 1..(IF Len(ids) = 0 THEN 0 ELSE Len(ids) - 1) |-> <<ids[k], states[ids[k]]>>]

\* StatesSerializer::serialize: the YAML mapping written to the states file,
\* one `item_id: state` entry per item that has a state, in graph order.
StatesSerialize(states) ==
  LET ids == SelectSeq(ItemsInOrder, LAMBDA i : HasEntry(states, i))
  IN [k \in 1..Len(ids) |-> <<ids[k], states[ids[k]]>>]

\* TypeReg::deserialize_map: the states map read back from the mapping; an
\* item without an entry in the file has no entry in the map.
StatesDeserialize(content) ==
  [i \in Items |->
     IF \E k \in DOMAIN content : content[k][1] = i
     THEN content[CHOOSE k \in DOMAIN content : content[k][1] = i][2]
     ELSE NoEntry]

\* A states file that was never written.
FileNotExists == [exists |-> FALSE, content |-> <<>>]

FileWith(states) == [exists |-> TRUE, content |-> StatesSerialize(states)]

\* The states map that a states file holds.
StatesStored(file) == StatesDeserialize(file.content)

\* ------------------------------------------------------------------------
\* Resource map: at most one occupant per type.
ResourceKeys ==
  {"StatesCurrentStored", "StatesGoalStored", "StatesCurrent", "StatesGoal",
   "StatesPrevious", "StatesApplied"}

ResourcesSetUp ==
  [present |-> {}, val |-> [k \in ResourceKeys |-> StatesNew], item_state |-> StatesNew,
   item_marker |-> [i \in Items |-> "None"]]

ResInsert(res, k, v) ==
  [res EXCEPT !.present = @ \cup {k}, !.val = [@ EXCEPT ![k] = v]]

\* ------------------------------------------------------------------------
\* Commands and their blocks.
SyncModes == {"None", "Current", "Goal", "Both"}

CmdNone ==
  [kind |-> "none", sync |-> "None", dry |-> FALSE, apply_for |-> "Ensure",
   independence |-> "Standalone", serialize |-> TRUE]

\* An apply command without the state sync check block.
ApplyCmdBlocksUnchecked(sync) ==
  <<"StatesCurrentRead", "StatesGoalRead", "StatesDiscoverCurrentAndGoal", "ApplyExec">>

\* An apply command that ends after the discovery, without the blocks that
\* publish the states applied.
ApplyCmdBlocksDiscoverOnly(sync) ==
  <<"StatesCurrentRead", "StatesGoalRead", "StatesDiscoverCurrentAndGoal">>

\* Blocks of `ApplyCmd::exec_internal`, by `ApplyStoredStateSync`.
ApplyCmdBlocks(sync) ==
  <<"StatesCurrentRead", "StatesGoalRead">>
  \o (CASE sync = "None" -> <<"ApplyStateSyncCheckGoal">>
        [] sync = "Current" -> <<"StatesDiscoverCurrent", "ApplyStateSyncCheckGoal">>
        [] sync = "Goal" -> <<"StatesDiscoverCurrentAndGoal", "ApplyStateSyncCheckGoal">>
        [] sync = "Both" ->
             <<"StatesDiscoverCurrentAndGoal", "ApplyStateSyncCheckCurrentAndGoal">>)
  \o <<"ApplyExec">>

\* Command kinds: "discover" is StatesDiscoverCmd::current_and_goal,
\* "discover_current" and "discover_goal" are ::current and ::goal; "read" is
\* StatesCurrentReadCmd and "read_goal" is StatesGoalReadCmd.
DiscoverKinds == {"discover", "discover_current", "discover_goal"}

ReadKinds == {"read", "read_goal"}

\* Blocks of the discover and read commands.
StatesDiscoverCmdBlocks == <<"StatesDiscoverCurrentAndGoal">>

StatesCurrentReadCmdBlocks == <<"StatesCurrentRead">>

StatesGoalReadCmdBlocks == <<"StatesGoalRead">>

CmdBlocks(c) ==
  CASE c.kind = "apply" -> ApplyCmdBlocks(c.sync)
    [] c.kind = "discover" -> StatesDiscoverCmdBlocks
    [] c.kind = "discover_current" -> <<"StatesDiscoverCurrent">>
    [] c.kind = "discover_goal" -> <<"StatesDiscoverGoal">>
    [] c.kind = "read" -> StatesCurrentReadCmdBlocks
    [] c.kind = "read_goal" -> StatesGoalReadCmdBlocks
    [] OTHER -> <<>>

IsDiscoverBlock(b) ==
  b \in {"StatesDiscoverCurrent", "StatesDiscoverGoal", "StatesDiscoverCurrentAndGoal"}

IsItemBlock(b) == IsDiscoverBlock(b) \/ b = "ApplyExec"

IsReadBlock(b) == b \in {"StatesCurrentRead", "StatesGoalRead"}

IsSyncCheckBlock(b) ==
  b \in {"ApplyStateSyncCheckGoal", "ApplyStateSyncCheckCurrentAndGoal"}

\* The value of a command execution: (StatesPrevious, States<StatesTs>, StatesGoal).
ExecutionOutcome(previous, applied, goal) ==
  [previous |-> previous, applied |-> applied, goal |-> goal]

\* The value of the discover and read commands: the states discovered or read.
StatesOutcome(current, goal) ==
  [previous |-> current, applied |-> StatesNew, goal |-> goal]

ExecutionOutcomeDefault == ExecutionOutcome(StatesNew, StatesNew, StatesNew)

\* Accumulator of a block, all blocks sharing one shape.
OutcomeAccNew ==
  [current |-> StatesNew, goal |-> StatesNew, applied |-> StatesNew,
   previous |-> StatesNew, current_stored |-> StatesNew, goal_stored |-> StatesNew]

\* `fn_partial_exec_handler` given to each `CmdBlockWrapper::new` of the apply
\* command: how the execution ends if it ends with this block.
PartialExecHandler(b, acc) ==
  CASE b = "StatesCurrentRead" -> ExecutionOutcome(acc.current_stored, StatesNew, StatesNew)
    [] b = "StatesGoalRead" -> ExecutionOutcome(StatesNew, StatesNew, acc.goal_stored)
    [] b = "StatesDiscoverCurrent" -> ExecutionOutcome(acc.current, StatesNew, StatesNew)
    [] b = "StatesDiscoverGoal" -> ExecutionOutcome(StatesNew, StatesNew, acc.goal)
    [] b = "StatesDiscoverCurrentAndGoal" -> ExecutionOutcome(acc.current, StatesNew, acc.goal)
    [] OTHER -> ExecutionOutcomeDefault

\* ------------------------------------------------------------------------
\* State.
VARIABLES
  world,                \* live state of each item
  params,               \* goal state that each item's params ask for
  states_current_file,  \* states_current.yaml
  states_goal_file,     \* states_goal.yaml
  cmd,                  \* command being run
  pc,                   \* "idle", "input_fetch", "exec", "block_done", "block_failed",
                        \* "outcome_fetch"
  block_index,          \* index of the block being run
  resources,            \* resource map of the command context
  outcome_acc,          \* cmd_outcome.value of the block being run
  errors,               \* cmd_outcome.errors of the block being run
  outcomes_chan,        \* partials sent on outcomes_tx, not yet received
  collate_error,        \* error that outcome_collate returned, or "none"
  task,                 \* item tasks of the block being run
  exec_done,            \* exec of a block without item tasks has returned
  interrupted,          \* the interrupt signal has fired
  result,               \* what the last command returned
  hist,                 \* what the items did in the command being run
  budget,               \* commands run and mutations made in the session
  ctx,                  \* the command context builder and the two-profile diff
  progress              \* progress status of each item's ProgressTracker

vars ==
  <<world, params, states_current_file, states_goal_file, cmd, pc, block_index,
    resources, outcome_acc, errors, outcomes_chan, collate_error, task, exec_done,
    interrupted, result, hist, budget, ctx, progress>>

Block ==
  IF pc \in {"input_fetch", "exec", "block_done", "block_failed"}
  THEN CmdBlocks(cmd)[block_index]
  ELSE "none"

HistNew ==
  [apply_check |-> [i \in Items |-> "none"], apply_invoked |-> {}, successes |-> {},
   current_before |-> FileNotExists, goal_before |-> FileNotExists, after_ensure |-> FALSE,
   discovered_before |-> StatesNew, sent |-> <<>>, folded |-> <<>>,
   unserialized_before |->
     [after |-> FALSE, current |-> FileNotExists, goal |-> FileNotExists]]

ResultNone ==
  [status |-> "none", kind |-> "none", error |-> "none", error_items |-> {},
   value |-> ExecutionOutcomeDefault, errors |-> {}, successes |-> {},
   block_index |-> 0, cmd |-> CmdNone]

BudgetNew == [cmds |-> 0, mutations |-> 0]

\* ProgressTracker::new for each item: ProgressStatus::Initialized.
ProgressNew == [i \in Items |-> "Initialized"]

\* What a discover block sends for an item if it always completes it.
ProgressDiscoverAlwaysComplete(c, ok) ==
  IF ok THEN "CompleteSuccess" ELSE "CompleteFail"

\* What a discover block sends for an item if it never completes it on
\* success.
ProgressDiscoverAlwaysTick(c, ok) ==
  IF ok THEN "Running" ELSE "CompleteFail"

\* What a discover block sends for an item that has returned: the item is
\* complete if the discover is the command itself; within another command,
\* or run as a sub command, it is a tick, and the item is running until that
\* command is done with it.
ProgressDiscover(c, ok) ==
  IF ~ok THEN "CompleteFail"
  ELSE IF c.kind \in {"discover", "discover_current", "discover_goal"}
          /\ c.independence = "Standalone"
  THEN "CompleteSuccess"
  ELSE "Running"

\* The items that are not complete when the execution is interrupted.
ProgressInterrupted(statuses) ==
  [i \in Items |-> IF statuses[i] \in {"Initialized", "Running"}
                   THEN "CompleteInterrupted" ELSE statuses[i]]

\* No command context is being built.
CtxNone == [pc |-> "none"]

TaskNew == [i \in Items |-> "pending"]

Init ==
  /\ world = [i \in Items |-> StateClean]
  /\ params \in [Items -> {"s1"}]
  /\ \/ /\ states_current_file = FileNotExists
        /\ states_goal_file = FileNotExists
     \/ /\ states_current_file = FileWith(world)
        /\ states_goal_file = FileWith(params)
  /\ cmd = CmdNone
  /\ pc = "idle"
  /\ block_index = 0
  /\ resources = ResourcesSetUp
  /\ outcome_acc = OutcomeAccNew
  /\ errors = {}
  /\ outcomes_chan = <<>>
  /\ collate_error = [name |-> "none", items |-> {}]
  /\ task = TaskNew
  /\ exec_done = FALSE
  /\ interrupted = FALSE
  /\ result = ResultNone
  /\ hist = HistNew
  /\ budget = BudgetNew
  /\ progress = ProgressNew
  /\ ctx = CtxNone

\* The state of the session, whatever the command context builder holds.
InitSession ==
  /\ world = [i \in Items |-> StateClean]
  /\ params \in [Items -> {"s1"}]
  /\ states_current_file = FileNotExists
  /\ states_goal_file = FileNotExists
  /\ cmd = CmdNone
  /\ pc = "building"
  /\ block_index = 0
  /\ resources = ResourcesSetUp
  /\ outcome_acc = OutcomeAccNew
  /\ errors = {}
  /\ outcomes_chan = <<>>
  /\ collate_error = [name |-> "none", items |-> {}]
  /\ task = TaskNew
  /\ exec_done = FALSE
  /\ interrupted = FALSE
  /\ result = ResultNone
  /\ hist = HistNew
  /\ budget = BudgetNew
  /\ progress = ProgressNew

\* ------------------------------------------------------------------------
\* The user, between commands: the live world changes, or the params do.
\* What the previous command returned no longer describes the world.
WorldMutate(i, s) ==
  /\ pc = "idle"
  /\ budget.mutations < MaxMutations
  /\ world[i] # s
  /\ world' = [world EXCEPT ![i] = s]
  /\ budget' = [budget EXCEPT !.mutations = @ + 1]
  /\ UNCHANGED ctx
  /\ progress' = ProgressNew
  /\ result' = ResultNone
  /\ hist' = HistNew
  /\ UNCHANGED <<params, states_current_file, states_goal_file, cmd, pc, block_index,
                 resources, outcome_acc, errors, outcomes_chan, collate_error, task,
                 exec_done, interrupted>>

ParamsChange(i, s) ==
  /\ pc = "idle"
  /\ budget.mutations < MaxMutations
  /\ params[i] # s
  /\ params' = [params EXCEPT ![i] = s]
  /\ budget' = [budget EXCEPT !.mutations = @ + 1]
  /\ UNCHANGED ctx
  /\ progress' = ProgressNew
  /\ result' = ResultNone
  /\ hist' = HistNew
  /\ UNCHANGED <<world, states_current_file, states_goal_file, cmd, pc, block_index,
                 resources, outcome_acc, errors, outcomes_chan, collate_error, task,
                 exec_done, interrupted>>

\* ------------------------------------------------------------------------
\* The last command was an ensure that completed with no item errors, and
\* neither the world nor the params changed since (a change clears `result`).
EnsuredJustBefore ==
  /\ result.status = "Ok"
  /\ result.kind = "Complete"
  /\ result.cmd.kind = "apply"
  /\ result.cmd.apply_for = "Ensure"
  /\ ~result.cmd.dry

\* The current states that the last command returned, if it was a discover
\* command that completed and wrote them, and neither the world nor the params
\* changed since.
DiscoveredJustBefore ==
  IF /\ result.status = "Ok"
     /\ result.kind = "Complete"
     /\ result.cmd.kind \in {"discover", "discover_current"}
     /\ result.cmd.serialize
  THEN result.value.previous
  ELSE StatesNew

\* The states files as they were before the last command, if it was a discover
\* command that completed and was told not to serialize.
StoredBeforeUnserialized ==
  IF /\ result.status = "Ok"
     /\ result.kind = "Complete"
     /\ result.cmd.kind \in DiscoverKinds
     /\ ~result.cmd.serialize
  THEN [after |-> TRUE, current |-> hist.current_before, goal |-> hist.goal_before]
  ELSE [after |-> FALSE, current |-> FileNotExists, goal |-> FileNotExists]

\* A command starts in a fresh context: the resource map holds no states.
CmdStart(c) ==
  /\ pc = "idle"
  /\ budget.cmds < MaxCmds
  /\ cmd' = c
  /\ pc' = "input_fetch"
  /\ block_index' = 1
  /\ resources' = ResourcesSetUp
  /\ interrupted' = FALSE
  /\ hist' = [HistNew EXCEPT !.current_before = states_current_file,
                             !.goal_before = states_goal_file,
                             !.after_ensure = EnsuredJustBefore,
                             !.discovered_before = DiscoveredJustBefore,
                             !.unserialized_before = StoredBeforeUnserialized]
  /\ result' = ResultNone
  /\ budget' = [budget EXCEPT !.cmds = @ + 1]
  /\ UNCHANGED ctx
  /\ progress' = ProgressNew
  /\ UNCHANGED <<world, params, states_current_file, states_goal_file, outcome_acc,
                 errors, outcomes_chan, collate_error, task, exec_done>>

\* What the command leaves when it returns: the context is dropped.
CmdReturn(r) ==
  /\ result' = r
  /\ pc' = "idle"
  /\ block_index' = 0
  /\ resources' = ResourcesSetUp
  /\ outcome_acc' = OutcomeAccNew
  /\ errors' = {}
  /\ outcomes_chan' = <<>>
  /\ collate_error' = [name |-> "none", items |-> {}]
  /\ task' = TaskNew
  /\ exec_done' = FALSE
  /\ interrupted' = FALSE
  /\ cmd' = CmdNone

\* ------------------------------------------------------------------------
\* CmdBlock functions of each block.

\* Types that `input_fetch` takes from the resource map.
InputKeys(b) ==
  CASE b = "ApplyStateSyncCheckGoal" -> {"StatesGoalStored", "StatesGoal"}
    [] b = "ApplyStateSyncCheckCurrentAndGoal" ->
         {"StatesCurrentStored", "StatesCurrent", "StatesGoalStored", "StatesGoal"}
    [] b = "ApplyExec" -> {"StatesCurrent", "StatesGoal"}
    [] OTHER -> {}

InputFetchOk(b, res) == InputKeys(b) \subseteq res.present

\* The resource map after `input_fetch` took ownership of the inputs.
InputTaken(b, res) ==
  [res EXCEPT !.present = @ \ InputKeys(b),
              !.val = [k \in ResourceKeys |-> IF k \in InputKeys(b) THEN StatesNew ELSE @[k]]]

\* `outcome_acc_init`, from the input fetched.
OutcomeAccInit(b, res) ==
  CASE b = "ApplyStateSyncCheckGoal" ->
         [OutcomeAccNew EXCEPT !.goal_stored = res.val["StatesGoalStored"],
                               !.goal = res.val["StatesGoal"]]
    [] b = "ApplyStateSyncCheckCurrentAndGoal" ->
         [OutcomeAccNew EXCEPT !.current_stored = res.val["StatesCurrentStored"],
                               !.current = res.val["StatesCurrent"],
                               !.goal_stored = res.val["StatesGoalStored"],
                               !.goal = res.val["StatesGoal"]]
    [] b = "ApplyExec" ->
         [OutcomeAccNew EXCEPT !.previous = res.val["StatesCurrent"]]
    [] OTHER -> OutcomeAccNew

\* `outcome_from_acc` and `outcome_insert`: the block's outcome, published in
\* the resource map for the blocks after it.
OutcomeInsert(b, acc, res) ==
  CASE b = "StatesCurrentRead" -> ResInsert(res, "StatesCurrentStored", acc.current_stored)
    [] b = "StatesGoalRead" -> ResInsert(res, "StatesGoalStored", acc.goal_stored)
    [] b = "StatesDiscoverCurrent" -> ResInsert(res, "StatesCurrent", acc.current)
    [] b = "StatesDiscoverGoal" -> ResInsert(res, "StatesGoal", acc.goal)
    [] b = "StatesDiscoverCurrentAndGoal" ->
         ResInsert(ResInsert(res, "StatesCurrent", acc.current), "StatesGoal", acc.goal)
    [] b = "ApplyStateSyncCheckGoal" ->
         ResInsert(ResInsert(res, "StatesGoalStored", acc.goal_stored), "StatesGoal", acc.goal)
    [] b = "ApplyStateSyncCheckCurrentAndGoal" ->
         ResInsert(ResInsert(ResInsert(ResInsert(res,
           "StatesCurrentStored", acc.current_stored), "StatesCurrent", acc.current),
           "StatesGoalStored", acc.goal_stored), "StatesGoal", acc.goal)
    [] b = "ApplyExec" ->
         ResInsert(ResInsert(ResInsert(res,
           "StatesPrevious", acc.previous), "StatesApplied", acc.applied),
           "StatesGoal", acc.goal)
    [] OTHER -> res

\* A partial outcome sent on `outcomes_tx`.
Partial(kind, item, current, goal, applied) ==
  [kind |-> kind, item |-> item, current |-> current, goal |-> goal,
   applied |-> applied, map |-> StatesNew, items |-> {}]

PartialOfMap(kind, map) ==
  [kind |-> kind, item |-> "none", current |-> NoEntry, goal |-> NoEntry,
   applied |-> NoEntry, map |-> map, items |-> {}]

PartialOfItems(kind, items) ==
  [kind |-> kind, item |-> "none", current |-> NoEntry, goal |-> NoEntry,
   applied |-> NoEntry, map |-> StatesNew, items |-> items]

NoError == [name |-> "none", items |-> {}]

\* A collation that takes a missing states file for one with no states.
CollateErrorMissingIsEmpty(b, p) ==
  CASE p.kind = "sync_current_err" -> [name |-> "StatesCurrentOutOfSync", items |-> p.items]
    [] p.kind = "sync_goal_err" -> [name |-> "StatesGoalOutOfSync", items |-> p.items]
    [] OTHER -> NoError

\* `outcome_collate`: the error it returns for this partial, if any.
CollateError(b, p) ==
  CASE p.kind = "read_err" ->
         [name |-> IF b = "StatesCurrentRead" THEN "StatesCurrentDiscoverRequired"
                   ELSE "StatesDesiredDiscoverRequired", items |-> {}]
    [] p.kind = "sync_current_err" -> [name |-> "StatesCurrentOutOfSync", items |-> p.items]
    [] p.kind = "sync_goal_err" -> [name |-> "StatesGoalOutOfSync", items |-> p.items]
    [] OTHER -> NoError

\* `outcome_collate`: the accumulator with this partial folded in.
CollateValue(b, acc, p) ==
  CASE p.kind = "read_ok" ->
         IF b = "StatesCurrentRead" THEN [acc EXCEPT !.current_stored = p.map]
         ELSE [acc EXCEPT !.goal_stored = p.map]
    [] p.kind = "discover_ok" ->
         [acc EXCEPT !.current = [@ EXCEPT ![p.item] = p.current],
                     !.goal = [@ EXCEPT ![p.item] = p.goal]]
    [] p.kind \in {"apply_unchanged", "apply_ok"} ->
         [acc EXCEPT !.applied = [@ EXCEPT ![p.item] = p.applied],
                     !.goal = [@ EXCEPT ![p.item] = p.goal]]
    [] OTHER -> acc

\* `outcome_collate`: the item errors with this partial folded in.
CollateErrors(errs, p) ==
  IF p.kind \in {"discover_err", "apply_err"} THEN errs \cup {p.item} ELSE errs

\* ------------------------------------------------------------------------
\* Flow graph traversal.
Predecessors(i) == {p \in Items : <<p, i>> \in Edges}

Successors(i) == {n \in Items : <<i, n>> \in Edges}

\* Items that must have completed before `i`, in the direction of traversal.
PredecessorsIn(dir, i) == IF dir = "reverse" THEN Successors(i) ELSE Predecessors(i)

RECURSIVE ReachIn(_, _, _)
ReachIn(dir, from, n) ==
  IF n = 0 THEN from
  ELSE ReachIn(dir, from \cup {j \in Items : PredecessorsIn(dir, j) \cap from # {}}, n - 1)

\* Items that come after `i` in the direction of traversal.
DescendantsIn(dir, i) == ReachIn(dir, {i}, Cardinality(Items)) \ {i}

\* An apply block that walks the graph forward for clean as for ensure.
ApplyDirectionForward(c) == "forward"

\* Ensure walks the graph forward, clean walks it in reverse.
ApplyDirection(c) == IF c.apply_for = "Clean" THEN "reverse" ELSE "forward"

BlockDirection == IF Block = "ApplyExec" THEN ApplyDirection(cmd) ELSE "forward"

\* A stream that yields every item at once, whatever the edges.
ItemReadyUnordered(i) == TRUE

\* The stream yields an item once all its predecessors have completed: in
\* the apply block an item that failed never completes; in the discover
\* blocks an item completes once it has emitted its outcome.
ItemReady(i) ==
  \A p \in PredecessorsIn(BlockDirection, i) :
    IF Block = "ApplyExec" THEN task[p] = "done" ELSE task[p] \in {"done", "failed"}

\* A stream that goes on yielding items after the interrupt signal.
ItemCanStartInterrupted(i) == task[i] = "pending" /\ ItemReady(i)

\* No item task is spawned once the interrupt signal is observed.
ItemCanStart(i) == task[i] = "pending" /\ ItemReady(i) /\ ~interrupted

\* The block's `exec` future has completed.
ExecReturned ==
  IF IsItemBlock(Block)
  THEN \A i \in Items : task[i] # "running" /\ ~ItemCanStart(i)
  ELSE exec_done

\* Items whose function returned an error in the block being run.
ItemsFailed == {i \in Items : task[i] = "failed"}

Send(p, h) ==
  /\ outcomes_chan' = Append(outcomes_chan, p)
  /\ hist' = [h EXCEPT !.sent = Append(@, p)]

\* ------------------------------------------------------------------------
\* CmdBlockWrapper::exec, first part: input_fetch and outcome_acc_init.
BlockInputFetch ==
  /\ pc = "input_fetch"
  /\ InputFetchOk(Block, resources)
  /\ resources' = InputTaken(Block, resources)
  /\ outcome_acc' = OutcomeAccInit(Block, resources)
  /\ errors' = {}
  /\ outcomes_chan' = <<>>
  /\ collate_error' = NoError
  /\ task' = TaskNew
  /\ exec_done' = FALSE
  /\ pc' = "exec"
  /\ hist' = [hist EXCEPT !.successes = {}]
  /\ UNCHANGED <<world, params, states_current_file, states_goal_file, cmd, block_index,
                 interrupted, result, budget, ctx, progress>>

ResultErr(name, items) ==
  [ResultNone EXCEPT !.status = "Err", !.error = name, !.error_items = items,
                     !.block_index = block_index, !.cmd = cmd]

ResultOk(kind, value, errs) ==
  [ResultNone EXCEPT !.status = "Ok", !.kind = kind, !.value = value, !.errors = errs,
                     !.successes = hist.successes, !.block_index = block_index,
                     !.cmd = cmd]

\* `input_fetch` fails: the block, and the command, end with that error.
BlockInputFetchFail ==
  /\ pc = "input_fetch"
  /\ ~InputFetchOk(Block, resources)
  /\ CmdReturn(ResultErr("ResourceFetchError", {}))
  /\ UNCHANGED <<world, params, states_current_file, states_goal_file, hist, budget, ctx, progress>>

\* ------------------------------------------------------------------------
\* exec of the read blocks: the stored states, or that there are none.
StatesReadExec ==
  /\ pc = "exec"
  /\ IsReadBlock(Block)
  /\ ~exec_done
  /\ LET file == IF Block = "StatesCurrentRead" THEN states_current_file
                 ELSE states_goal_file
     IN Send(IF file.exists THEN PartialOfMap("read_ok", StatesStored(file))
             ELSE PartialOfMap("read_err", StatesNew), hist)
  /\ exec_done' = TRUE
  /\ UNCHANGED <<world, params, states_current_file, states_goal_file, cmd, pc, block_index,
                 resources, outcome_acc, errors, collate_error, task, interrupted, result,
                 budget, ctx, progress>>

\* Items whose stored state differs from the state discovered in this run.
StatesOutOfSync(stored, discovered) == {i \in Items : stored[i] # discovered[i]}

\* exec of the state sync check blocks.
ApplyStateSyncCheckExec ==
  /\ pc = "exec"
  /\ IsSyncCheckBlock(Block)
  /\ ~exec_done
  /\ LET current_diff == IF Block = "ApplyStateSyncCheckCurrentAndGoal"
                         THEN StatesOutOfSync(outcome_acc.current_stored, outcome_acc.current)
                         ELSE {}
         goal_diff == StatesOutOfSync(outcome_acc.goal_stored, outcome_acc.goal)
     IN Send(IF current_diff # {} THEN PartialOfItems("sync_current_err", current_diff)
             ELSE IF goal_diff # {} THEN PartialOfItems("sync_goal_err", goal_diff)
             ELSE PartialOfItems("sync_ok", {}), hist)
  /\ exec_done' = TRUE
  /\ UNCHANGED <<world, params, states_current_file, states_goal_file, cmd, pc, block_index,
                 resources, outcome_acc, errors, collate_error, task, interrupted, result,
                 budget, ctx, progress>>

\* exec of the discover blocks, for one item: its current state, and its goal
\* state if the block discovers goal states, or an item error.
StatesDiscoverItem(i, ok) ==
  /\ pc = "exec"
  /\ IsDiscoverBlock(Block)
  /\ ItemCanStart(i)
  /\ \A j \in Items : ItemCanStart(j) => StreamOrder(i) <= StreamOrder(j)
  /\ outcomes_chan = <<>>
  /\ IF ok
     THEN /\ Send(Partial("discover_ok", i,
                          IF Block = "StatesDiscoverGoal" THEN NoEntry ELSE world[i],
                          IF Block = "StatesDiscoverCurrent" THEN NoEntry ELSE params[i],
                          NoEntry), hist)
          /\ task' = [task EXCEPT ![i] = "done"]
          /\ resources' = IF Block = "StatesDiscoverGoal" THEN resources
                          ELSE [resources EXCEPT !.item_state[i] = world[i],
                                                 !.item_marker[i] = "Current"]
     ELSE /\ Cardinality(ItemsFailed) < MaxFailures
          /\ Send(Partial("discover_err", i, NoEntry, NoEntry, NoEntry), hist)
          /\ task' = [task EXCEPT ![i] = "failed"]
          /\ UNCHANGED resources
  /\ progress' = [progress EXCEPT ![i] = ProgressDiscover(cmd, ok)]
  /\ UNCHANGED <<world, params, states_current_file, states_goal_file, cmd, pc, block_index,
                 outcome_acc, errors, collate_error, exec_done, interrupted, result,
                 budget, ctx>>

\* ------------------------------------------------------------------------
\* exec of the apply block.

\* The state that apply brings the item to: its goal state for ensure, its
\* clean state for clean.
StateTarget(c, i) == IF c.apply_for = "Clean" THEN StateClean ELSE params[i]

\* An `apply_check` that asks for execution whatever the states are.
ApplyCheckAlwaysRequired(state_current, state_target) == "ExecRequired"

\* `apply_check`: execution is not required when the states are in sync.
ApplyCheck(state_current, state_target) ==
  IF state_current = state_target THEN "ExecNotRequired" ELSE "ExecRequired"

\* An item is yielded by the stream: its states are discovered,
\* `apply_check` runs, and either the item emits an unchanged partial, or its
\* apply (or apply_dry) begins.
ItemApplyStart(i) ==
  /\ pc = "exec"
  /\ Block = "ApplyExec"
  /\ ItemCanStart(i)
  /\ LET check == ApplyCheck(world[i], StateTarget(cmd, i))
         h == [hist EXCEPT !.apply_check[i] = check]
     IN IF check = "ExecNotRequired"
        THEN /\ Send(Partial("apply_unchanged", i, world[i], StateTarget(cmd, i), world[i]), h)
             /\ task' = [task EXCEPT ![i] = "done"]
             /\ resources' = [resources EXCEPT !.item_state[i] = world[i],
                                               !.item_marker[i] = "Current"]
             /\ progress' = [progress EXCEPT ![i] = "CompleteSuccess"]
        ELSE /\ hist' = [h EXCEPT !.apply_invoked = @ \cup {i}]
             /\ task' = [task EXCEPT ![i] = "running"]
             /\ progress' = [progress EXCEPT ![i] = "Running"]
             /\ UNCHANGED <<outcomes_chan, resources>>
  /\ UNCHANGED <<world, params, states_current_file, states_goal_file, cmd, pc, block_index,
                 outcome_acc, errors, collate_error, exec_done, interrupted, result,
                 budget, ctx>>

\* An `exec_dry` that makes the change it is asked to simulate.
WorldAfterApplyReal(c, i) == [world EXCEPT ![i] = StateTarget(c, i)]

\* EnsureOpSpec::exec changes the item to the target state; exec_dry only
\* returns the state it would have reached.
WorldAfterApply(c, i) ==
  IF c.dry THEN world ELSE [world EXCEPT ![i] = StateTarget(c, i)]

\* A dry apply that stores the state it returns under the `Current` marker.
ResourcesItemAppliedAsCurrent(res, c, i) ==
  [res EXCEPT !.item_state[i] = StateTarget(c, i), !.item_marker[i] = "Current"]

\* The state an apply returns is written into the resource map for the item's
\* successors: under the `ApplyDry` marker when the item is dry applied.
ResourcesItemApplied(res, c, i) ==
  [res EXCEPT !.item_state[i] = StateTarget(c, i),
              !.item_marker[i] = IF c.dry THEN "ApplyDry" ELSE "Current"]

\* The item's apply returns: the state applied, which is inserted into the
\* resource map, or an item error. A dry apply leaves the world as it is.
ItemApplyFinish(i, ok) ==
  /\ pc = "exec"
  /\ Block = "ApplyExec"
  /\ task[i] = "running"
  /\ IF ok
     THEN /\ Send(Partial("apply_ok", i, world[i], StateTarget(cmd, i), StateTarget(cmd, i)),
                  hist)
          /\ world' = WorldAfterApply(cmd, i)
          /\ task' = [task EXCEPT ![i] = "done"]
          /\ resources' = ResourcesItemApplied(resources, cmd, i)
     ELSE /\ Cardinality(ItemsFailed) < MaxFailures
          /\ Send(Partial("apply_err", i, world[i], StateTarget(cmd, i), NoEntry), hist)
          /\ task' = [task EXCEPT ![i] = "failed"]
          /\ UNCHANGED <<world, resources>>
  /\ progress' = [progress EXCEPT ![i] = IF ok THEN "CompleteSuccess" ELSE "CompleteFail"]
  /\ UNCHANGED <<params, states_current_file, states_goal_file, cmd, pc, block_index,
                 outcome_acc, errors, collate_error, exec_done, interrupted, result,
                 budget, ctx>>

\* ------------------------------------------------------------------------
\* CmdBlockWrapper::exec, outcomes_rx_task: each partial received is folded
\* into cmd_outcome, until outcome_collate returns an error.
OutcomeCollate ==
  /\ pc = "exec"
  /\ outcomes_chan # <<>>
  /\ collate_error = NoError
  /\ LET p == Head(outcomes_chan)
     IN /\ outcome_acc' = CollateValue(Block, outcome_acc, p)
        /\ errors' = CollateErrors(errors, p)
        /\ collate_error' = CollateError(Block, p)
        /\ hist' = [hist EXCEPT
             !.successes = IF p.kind \in {"discover_ok", "apply_unchanged", "apply_ok"}
                           THEN @ \cup {p.item} ELSE @,
             !.folded = Append(@, p)]
  /\ outcomes_chan' = Tail(outcomes_chan)
  /\ UNCHANGED <<world, params, states_current_file, states_goal_file, cmd, pc, block_index,
                 resources, task, exec_done, interrupted, result, budget, ctx, progress>>

\* The interrupt signal fires while a block runs.
Interrupt ==
  /\ pc = "exec"
  /\ ~interrupted
  /\ interrupted' = TRUE
  /\ UNCHANGED <<world, params, states_current_file, states_goal_file, cmd, pc, block_index,
                 resources, outcome_acc, errors, outcomes_chan, collate_error, task,
                 exec_done, result, hist, budget, ctx, progress>>

\* A block that returns as soon as its `exec` has, leaving what is still in
\* the channel.
BlockJoinedNoDrain ==
  /\ pc = "exec"
  /\ ExecReturned

\* A block that returns on the first item error, without joining its tasks.
BlockJoinedEarly ==
  /\ pc = "exec"
  /\ ExecReturned \/ errors # {}
  /\ (outcomes_chan = <<>> \/ collate_error # NoError)

\* futures::join!(execution_task, outcomes_rx_task) has completed.
BlockJoined ==
  /\ pc = "exec"
  /\ ExecReturned
  /\ (outcomes_chan = <<>> \/ collate_error # NoError)

\* ------------------------------------------------------------------------
\* A command that returns without writing the current states.
SerializeCurrentSkipped(c, value, complete) == states_current_file

\* A discover command that writes the goal states whatever it is told.
SerializeGoalAlways(c, value, complete) ==
  CASE c.kind = "apply" /\ ~c.dry /\ c.apply_for = "Ensure" -> FileWith(value.goal)
    [] c.kind \in {"discover", "discover_goal"} /\ complete -> FileWith(value.goal)
    [] OTHER -> states_goal_file

\* ApplyCmd::exec_with, StatesDiscoverCmd: what is written to storage once the
\* command execution has returned `value`.
SerializeCurrent(c, value, complete) ==
  CASE c.kind = "apply" /\ ~c.dry -> FileWith(value.applied)
    [] c.kind \in {"discover", "discover_current"} /\ complete /\ c.serialize ->
         FileWith(value.previous)
    [] OTHER -> states_current_file

\* An apply that writes the goal states for clean as it does for ensure.
SerializeGoalCleanToo(c, value, complete) ==
  CASE c.kind = "apply" /\ ~c.dry -> FileWith(value.goal)
    [] c.kind \in {"discover", "discover_goal"} /\ complete /\ c.serialize ->
         FileWith(value.goal)
    [] OTHER -> states_goal_file

\* ApplyCmd::exec_with writes the goal states for ensure only.
SerializeGoal(c, value, complete) ==
  CASE c.kind = "apply" /\ ~c.dry /\ c.apply_for = "Ensure" -> FileWith(value.goal)
    [] c.kind \in {"discover", "discover_goal"} /\ complete /\ c.serialize ->
         FileWith(value.goal)
    [] OTHER -> states_goal_file

\* The command execution returns an outcome, and the command returns it
\* after serialization.
CmdOutcomeReturn(kind, value, errs) ==
  /\ states_current_file' = SerializeCurrent(cmd, value, kind = "Complete")
  /\ states_goal_file' = SerializeGoal(cmd, value, kind = "Complete")
  /\ CmdReturn(ResultOk(kind, value, errs))
  /\ progress' = IF kind = "ExecutionInterrupted" THEN ProgressInterrupted(progress)
                 ELSE progress
  /\ UNCHANGED <<world, params, hist, budget, ctx>>

\* The channel and the receiving task end with the block.
HistBlockEnd == [hist EXCEPT !.sent = <<>>, !.folded = <<>>]

\* CmdBlockWrapper::exec, last part.
\* outcome_collate returned an error: the block fails with it.
BlockEndBlockError ==
  /\ BlockJoined
  /\ collate_error # NoError
  /\ CmdReturn(ResultErr(collate_error.name, collate_error.items))
  /\ hist' = HistBlockEnd
  /\ UNCHANGED <<world, params, states_current_file, states_goal_file, budget, ctx, progress>>

\* A block that returns Ok without `outcome_insert`.
BlockEndOkNoInsert ==
  /\ BlockJoined
  /\ collate_error = NoError
  /\ errors = {}
  /\ pc' = "block_done"
  /\ hist' = HistBlockEnd
  /\ UNCHANGED <<world, params, states_current_file, states_goal_file, cmd, block_index,
                 resources, outcome_acc, errors, outcomes_chan, collate_error, task,
                 exec_done, interrupted, result, budget, ctx, progress>>

\* A block that returns Ok in spite of item errors.
BlockEndItemErrorsIgnored ==
  /\ BlockJoined
  /\ collate_error = NoError
  /\ errors # {}
  /\ resources' = OutcomeInsert(Block, outcome_acc, resources)
  /\ pc' = "block_done"
  /\ hist' = HistBlockEnd
  /\ UNCHANGED <<world, params, states_current_file, states_goal_file, cmd, block_index,
                 outcome_acc, errors, outcomes_chan, collate_error, task, exec_done,
                 interrupted, result, budget, ctx, progress>>

\* No item errors: the outcome is inserted into the resource map, and the
\* block returns Ok.
BlockEndOk ==
  /\ BlockJoined
  /\ collate_error = NoError
  /\ errors = {}
  /\ resources' = OutcomeInsert(Block, outcome_acc, resources)
  /\ pc' = "block_done"
  /\ hist' = HistBlockEnd
  /\ UNCHANGED <<world, params, states_current_file, states_goal_file, cmd, block_index,
                 outcome_acc, errors, outcomes_chan, collate_error, task, exec_done,
                 interrupted, result, budget, ctx, progress>>

\* Item errors: the outcome is not inserted, and the block returns the
\* accumulator, to be mapped through the partial execution handler, with the
\* item errors.
BlockEndItemErrors ==
  /\ BlockJoined
  /\ collate_error = NoError
  /\ errors # {}
  /\ pc' = "block_failed"
  /\ hist' = HistBlockEnd
  /\ UNCHANGED <<world, params, states_current_file, states_goal_file, cmd, block_index,
                 resources, outcome_acc, errors, outcomes_chan, collate_error, task,
                 exec_done, interrupted, result, budget, ctx, progress>>

\* ------------------------------------------------------------------------
\* CmdExecution::exec, after a block has returned.
\* The block returned item errors: the execution ends with the block's
\* accumulator mapped through its partial execution handler.
CmdExecutionBlockInterrupted ==
  /\ pc = "block_failed"
  /\ CmdOutcomeReturn("BlockInterrupted", PartialExecHandler(Block, outcome_acc), errors)

\* The block returned Ok and the interrupt signal has fired: the execution
\* ends with what the block accumulated.
CmdExecutionInterrupted ==
  /\ pc = "block_done"
  /\ interrupted
  /\ CmdOutcomeReturn("ExecutionInterrupted", PartialExecHandler(Block, outcome_acc), {})

\* The block returned Ok: the execution goes on with the next block.
CmdExecutionAdvance ==
  /\ pc = "block_done"
  /\ ~interrupted
  /\ IF block_index < Len(CmdBlocks(cmd))
     THEN /\ block_index' = block_index + 1
          /\ pc' = "input_fetch"
     ELSE /\ block_index' = block_index
          /\ pc' = "outcome_fetch"
  /\ UNCHANGED <<world, params, states_current_file, states_goal_file, cmd, resources,
                 outcome_acc, errors, outcomes_chan, collate_error, task, exec_done,
                 interrupted, result, hist, budget, ctx, progress>>

\* ------------------------------------------------------------------------
\* After the last block: `execution_outcome_fetch` takes the outcome out of
\* the resource map.
OutcomeKeys(c) ==
  IF c.kind = "apply" THEN {"StatesPrevious", "StatesApplied", "StatesGoal"}
  ELSE IF c.kind = "discover" THEN {"StatesCurrent", "StatesGoal"}
  ELSE IF c.kind = "discover_current" THEN {"StatesCurrent"}
  ELSE IF c.kind = "discover_goal" THEN {"StatesGoal"}
  ELSE IF c.kind = "read_goal" THEN {"StatesGoalStored"}
  ELSE {"StatesCurrentStored"}

ExecutionOutcomeFetch(c, res) ==
  IF c.kind = "apply"
  THEN ExecutionOutcome(res.val["StatesPrevious"], res.val["StatesApplied"],
                        res.val["StatesGoal"])
  ELSE IF c.kind = "discover"
  THEN StatesOutcome(res.val["StatesCurrent"], res.val["StatesGoal"])
  ELSE IF c.kind = "discover_current"
  THEN StatesOutcome(res.val["StatesCurrent"], StatesNew)
  ELSE IF c.kind = "discover_goal"
  THEN StatesOutcome(StatesNew, res.val["StatesGoal"])
  ELSE IF c.kind = "read_goal"
  THEN StatesOutcome(StatesNew, res.val["StatesGoalStored"])
  ELSE StatesOutcome(res.val["StatesCurrentStored"], StatesNew)

\* It panics if one of them is missing from the resource map.
CmdComplete ==
  /\ pc = "outcome_fetch"
  /\ IF OutcomeKeys(cmd) \subseteq resources.present
     THEN CmdOutcomeReturn("Complete", ExecutionOutcomeFetch(cmd, resources), {})
     ELSE /\ CmdReturn(ResultErr("panic", {}))
          /\ UNCHANGED <<world, params, states_current_file, states_goal_file, hist,
                         budget, ctx, progress>>

\* ------------------------------------------------------------------------
\* States the live world is changed to from outside the framework.
WorldValues == {StateClean, "s1"}

\* The commands a session runs: the discover commands, on their own and as
\* `current_with` / `goal_with` / `current_and_goal_with` of a sub command
\* that is told not to serialize, the read commands, `exec_with` / `exec_dry_with`
\* of ensure with each sync mode, and `exec` / `exec_dry` of ensure and clean
\* (sync mode `Both`).
Cmds ==
  {[CmdNone EXCEPT !.kind = k] : k \in DiscoverKinds \cup ReadKinds}
  \cup {[CmdNone EXCEPT !.kind = k, !.independence = "SubCmd", !.serialize = FALSE] :
          k \in DiscoverKinds}
  \cup {[CmdNone EXCEPT !.kind = "apply", !.sync = s, !.dry = d] :
          s \in SyncModes, d \in BOOLEAN}
  \cup {[CmdNone EXCEPT !.kind = "apply", !.sync = "Both", !.dry = d, !.apply_for = a] :
          d \in BOOLEAN, a \in {"Ensure", "Clean"}}

Next ==
  \/ \E i \in Items, s \in WorldValues : WorldMutate(i, s)
  \/ \E i \in Items, s \in StatesGoalValues : ParamsChange(i, s)
  \/ \E c \in Cmds : CmdStart(c)
  \/ BlockInputFetch
  \/ BlockInputFetchFail
  \/ StatesReadExec
  \/ ApplyStateSyncCheckExec
  \/ \E i \in Items, ok \in BOOLEAN : StatesDiscoverItem(i, ok)
  \/ \E i \in Items : ItemApplyStart(i)
  \/ \E i \in Items, ok \in BOOLEAN : ItemApplyFinish(i, ok)
  \/ OutcomeCollate
  \/ Interrupt
  \/ BlockEndBlockError
  \/ BlockEndOk
  \/ BlockEndItemErrors
  \/ CmdExecutionBlockInterrupted
  \/ CmdExecutionInterrupted
  \/ CmdExecutionAdvance
  \/ CmdComplete

Spec == Init /\ [][Next]_vars

\* ------------------------------------------------------------------------
\* CmdCtxBuilder::workspace_params_merge, profile_params_merge and
\* flow_params_merge: the params given to the builder, and the params file.
ParamKeys == 1..MaxParamKeys

ParamValues == {"a", "b"}

\* Params maps: a value for some of the keys.
ParamsMaps == UNION {[d -> ParamValues] : d \in SUBSET ParamKeys}

\* What `*_params_deserialize` returns: None if there is no params file.
ParamsFileNone == [some |-> FALSE, map |-> <<>>]

ParamsFileSome(map) == [some |-> TRUE, map |-> map]

\* `insert_raw`.
ParamsInsert(selection, key, param) ==
  [k \in DOMAIN selection \cup {key} |-> IF k = key THEN param ELSE selection[k]]

\* A merge step in which the stored value replaces the one provided.
ParamsMergeEntryStoredWins(selection, key, param) == ParamsInsert(selection, key, param)

\* The closure given to `for_each`: the stored entry is inserted if the params
\* hold no value for its key.
ParamsMergeEntry(selection, key, param) ==
  IF key \notin DOMAIN selection THEN ParamsInsert(selection, key, param) ELSE selection

\* `params_deserialized.into_iter().for_each(..)`, over the entries left.
RECURSIVE ParamsMergeEach(_, _, _)
ParamsMergeEach(selection, deserialized, keys) ==
  IF keys = {} THEN selection
  ELSE LET key == CHOOSE k \in keys : TRUE
       IN ParamsMergeEach(ParamsMergeEntry(selection, key, deserialized[key]),
                          deserialized, keys \ {key})

\* The body of `*_params_merge`, given what was deserialized; `selection` is
\* the params held by the builder.
ParamsMerge(selection, params_deserialized) ==
  IF ~params_deserialized.some THEN selection
  ELSE IF DOMAIN selection = {} THEN params_deserialized.map
  ELSE ParamsMergeEach(selection, params_deserialized.map,
                       DOMAIN params_deserialized.map)

\* The builder holds the params provided this run; the params file holds
\* what an earlier run stored, if any.
InitParamsMerge ==
  /\ InitSession
  /\ \E provided \in ParamsMaps, stored \in {ParamsFileNone} \cup
                                             {ParamsFileSome(m) : m \in ParamsMaps} :
       ctx = [pc |-> "params_merge", provided |-> provided, params_file |-> stored,
              params |-> provided]

ParamsMergeExec ==
  /\ ctx.pc = "params_merge"
  /\ ctx' = [ctx EXCEPT !.params = ParamsMerge(ctx.params, ctx.params_file),
                         !.pc = "params_merged"]
  /\ UNCHANGED <<world, params, states_current_file, states_goal_file, cmd, pc, block_index,
                 resources, outcome_acc, errors, outcomes_chan, collate_error, task,
                 exec_done, interrupted, result, hist, budget, progress>>

SpecParamsMerge == InitParamsMerge /\ [][ParamsMergeExec]_vars

\* ------------------------------------------------------------------------
\* Context build, step 4: the params specs provided this run are merged with
\* the stored ones, and the coverage of the flow's items is validated.
\* Ids that params specs may be keyed by: the items of the flow, and the id
\* of an item that is not in the flow (renamed or removed).
ParamsSpecIds == Items \cup {"removed_item"}

\* The merge without the check that every item has a params spec.
ParamsSpecsMergeItemUnchecked(acc, item_id) ==
  IF item_id \in acc.provided \cup acc.stored
  THEN [acc EXCEPT !.provided = @ \ {item_id}, !.stored = @ \ {item_id},
                   !.params_specs = [i \in DOMAIN @ \cup {item_id} |->
                      IF i # item_id THEN @[i]
                      ELSE IF item_id \in acc.provided THEN "provided" ELSE "stored"]]
  ELSE acc

\* One item of the graph: its entry is removed from the provided and from the
\* stored params specs; the provided one is used if there is one, else the
\* stored one; an item with neither is collected.
ParamsSpecsMergeItem(acc, item_id) ==
  IF item_id \in acc.provided \cup acc.stored
  THEN [acc EXCEPT !.provided = @ \ {item_id}, !.stored = @ \ {item_id},
                   !.params_specs = [i \in DOMAIN @ \cup {item_id} |->
                      IF i # item_id THEN @[i]
                      ELSE IF item_id \in acc.provided THEN "provided" ELSE "stored"]]
  ELSE [acc EXCEPT !.item_ids_with_no_params_specs = Append(@, item_id)]

\* `item_graph.iter_insertion().for_each(..)`, from the k-th item on.
RECURSIVE ParamsSpecsMergeEach(_, _)
ParamsSpecsMergeEach(acc, k) ==
  IF k > Len(ItemsInOrder) THEN acc
  ELSE ParamsSpecsMergeEach(ParamsSpecsMergeItem(acc, ItemsInOrder[k]), k + 1)

\* The params specs of the context, or ParamsSpecsMismatch with the items
\* that have no params spec and the provided and stored params specs that
\* match no item. `params_specs_stored` is None if nothing was stored.
ParamsSpecsMerge(params_specs_provided, params_specs_stored) ==
  LET acc == ParamsSpecsMergeEach(
               [provided |-> params_specs_provided,
                stored |-> IF params_specs_stored.some THEN params_specs_stored.of ELSE {},
                params_specs |-> <<>>, item_ids_with_no_params_specs |-> <<>>], 1)
      params_no_issues ==
        /\ acc.item_ids_with_no_params_specs = <<>>
        /\ acc.provided = {}
        /\ acc.stored = {}
  IN [error |-> IF params_no_issues THEN "none" ELSE "ParamsSpecsMismatch",
      params_specs |-> IF params_no_issues THEN acc.params_specs ELSE <<>>,
      item_ids_with_no_params_specs |->
        IF params_no_issues THEN <<>> ELSE acc.item_ids_with_no_params_specs,
      params_specs_provided_mismatches |-> IF params_no_issues THEN {} ELSE acc.provided,
      params_specs_stored_mismatches |->
        IF params_no_issues \/ ~params_specs_stored.some THEN [some |-> FALSE, of |-> {}]
        ELSE [some |-> TRUE, of |-> acc.stored]]

InitBuild ==
  /\ InitSession
  /\ \E provided \in SUBSET ParamsSpecIds,
        stored \in {[some |-> FALSE, of |-> {}]} \cup
                   {[some |-> TRUE, of |-> ids] : ids \in SUBSET ParamsSpecIds} :
       ctx = [pc |-> "build", params_specs_provided |-> provided,
              params_specs_stored |-> stored, built |-> <<>>]

BuildExec ==
  /\ ctx.pc = "build"
  /\ ctx' = [ctx EXCEPT !.built = ParamsSpecsMerge(ctx.params_specs_provided,
                                                   ctx.params_specs_stored),
                         !.pc = "built"]
  /\ UNCHANGED <<world, params, states_current_file, states_goal_file, cmd, pc, block_index,
                 resources, outcome_acc, errors, outcomes_chan, collate_error, task,
                 exec_done, interrupted, result, hist, budget, progress>>

SpecBuild == InitBuild /\ [][BuildExec]_vars

\* Option<T>: None, or Some(of).
OptNone == [some |-> FALSE, of |-> 0]

OptSome(of) == [some |-> TRUE, of |-> of]

\* ------------------------------------------------------------------------
\* Params resolution for `iam_role`, whose `managed_policy_arn` is mapped from
\* the state of its predecessor `iam_policy`.
IamPolicyStates ==
  {[kind |-> "None", generated |-> FALSE, arn |-> "none"],
   [kind |-> "Some", generated |-> FALSE, arn |-> "none"]}
  \cup {[kind |-> "Some", generated |-> TRUE, arn |-> a] : a \in {"arn_1", "arn_2"}}

IamRoleStates == {"None", "Some"}

\* Phases in which params are resolved: the discovery of current states, the
\* discovery of goal states, apply and dry apply.
ResolvePhases == {"current", "goal", "apply", "apply_dry"}

\* The closure given to `with_managed_policy_arn_from_map`.
ManagedPolicyArnFromMap(iam_policy_state) ==
  IF iam_policy_state.kind = "Some" /\ iam_policy_state.generated
  THEN OptSome(iam_policy_state.arn)
  ELSE OptNone

\* The field-wise spec of IamRoleParams: name and path are values, the
\* managed policy arn needs the predecessor's state to be in the resource
\* map and the mapping function to return a value.
IamRoleParamsPartial(iam_policy_in_map) ==
  [name |-> OptSome("name"), path |-> OptSome("/"),
   managed_policy_arn |-> IF iam_policy_in_map.some
                          THEN ManagedPolicyArnFromMap(iam_policy_in_map.of)
                          ELSE OptNone]

\* A resolver that falls back to partial params in every phase.
ParamsResolvedAlwaysTry(phase, params_partial) ==
  IF params_partial.managed_policy_arn.some THEN "resolved" ELSE "partial"

\* The params are resolved fully, or resolution fails: during the discovery
\* of current states the item goes on with the partial params, in the other
\* phases the failure is an item error.
ParamsResolved(phase, params_partial) ==
  IF params_partial.managed_policy_arn.some THEN "resolved"
  ELSE IF phase = "current" THEN "partial"
  ELSE "ParamsResolveError"

\* The item function that the phase calls with the params.
ItemFn(phase, resolved) ==
  CASE phase = "current" -> IF resolved = "resolved" THEN "state_current"
                            ELSE "try_state_current"
    [] phase = "goal" -> "state_goal"
    [] phase = "apply" -> "apply"
    [] phase = "apply_dry" -> "apply_dry"

\* The block starts with the resource map as the block before it left it:
\* with or without a state of `iam_policy`.
InitResolve ==
  /\ InitSession
  /\ \E phase \in ResolvePhases,
        in_map \in {OptNone} \cup {OptSome(state) : state \in IamPolicyStates} :
       ctx = [pc |-> "resolve", phase |-> phase, iam_policy |-> "pending",
              iam_policy_in_map |-> in_map, iam_role |-> "pending",
              params_partial |-> IamRoleParamsPartial(OptNone), item_errors |-> {},
              fn_invoked |-> "none", iam_role_state |-> OptNone]

\* The function of `iam_policy` returns: its state is inserted into the
\* resource map, or it is an item error.
IamPolicyExec(ok, state) ==
  /\ ctx.pc = "resolve"
  /\ ctx.iam_policy = "pending"
  /\ ctx' = IF ok
            THEN [ctx EXCEPT !.iam_policy = "done", !.iam_policy_in_map = OptSome(state)]
            ELSE [ctx EXCEPT !.iam_policy = "failed", !.item_errors = @ \cup {"iam_policy"}]
  /\ UNCHANGED <<world, params, states_current_file, states_goal_file, cmd, pc, block_index,
                 resources, outcome_acc, errors, outcomes_chan, collate_error, task,
                 exec_done, interrupted, result, hist, budget, progress>>

\* `iam_role` is yielded by the stream once its predecessor has emitted its
\* outcome (in the apply block, once it has succeeded), and its params are
\* resolved.
IamRoleResolve ==
  /\ ctx.pc = "resolve"
  /\ ctx.iam_role = "pending"
  /\ IF ctx.phase \in {"apply", "apply_dry"} THEN ctx.iam_policy = "done"
     ELSE ctx.iam_policy \in {"done", "failed"}
  /\ LET params_partial == IamRoleParamsPartial(ctx.iam_policy_in_map)
         resolved == ParamsResolved(ctx.phase, params_partial)
     IN ctx' = [ctx EXCEPT !.params_partial = params_partial,
                           !.iam_role = resolved,
                           !.item_errors = IF resolved = "ParamsResolveError"
                                           THEN @ \cup {"iam_role"} ELSE @]
  /\ UNCHANGED <<world, params, states_current_file, states_goal_file, cmd, pc, block_index,
                 resources, outcome_acc, errors, outcomes_chan, collate_error, task,
                 exec_done, interrupted, result, hist, budget, progress>>

\* The function of `iam_role` is called with the params, full or partial, and
\* returns a state, no state (try_state_current only), or an item error.
IamRoleExec(ok, state) ==
  /\ ctx.pc = "resolve"
  /\ ctx.iam_role \in {"resolved", "partial"}
  /\ ~state.some => (ctx.iam_role = "partial" /\ ok)
  /\ ctx' = [ctx EXCEPT !.fn_invoked = ItemFn(ctx.phase, ctx.iam_role),
                        !.iam_role = IF ok THEN "done" ELSE "failed",
                        !.iam_role_state = IF ok THEN state ELSE OptNone,
                        !.item_errors = IF ok THEN @ ELSE @ \cup {"iam_role"},
                        !.pc = "resolve_done"]
  /\ UNCHANGED <<world, params, states_current_file, states_goal_file, cmd, pc, block_index,
                 resources, outcome_acc, errors, outcomes_chan, collate_error, task,
                 exec_done, interrupted, result, hist, budget, progress>>

NextResolve ==
  \/ \E ok \in BOOLEAN, state \in IamPolicyStates : IamPolicyExec(ok, state)
  \/ IamRoleResolve
  \/ \E ok \in BOOLEAN, state \in {OptNone} \cup {OptSome(r) : r \in IamRoleStates} :
       IamRoleExec(ok, state)

SpecResolve == InitResolve /\ [][NextResolve]_vars

\* ------------------------------------------------------------------------
\* DiffCmd::diff_current_stored, on a MultiProfileSingleFlow context.
Profiles == 1..MaxProfiles

\* BTreeMap::get: None if the map has no entry for the key.
MapGet(map, key) == IF key \in DOMAIN map THEN OptSome(map[key]) ELSE OptNone

\* Option::or_else.
OrElse(opt, other) == IF opt.some THEN opt ELSE other

\* `profile_to_params_specs.get(profile_a).or_else(|| ...get(profile_b))`.
ParamsSpecsForDiff(profile_to_params_specs, profile_a, profile_b) ==
  OrElse(MapGet(profile_to_params_specs, profile_a),
         MapGet(profile_to_params_specs, profile_b))

\* The stored current states of a profile, or the error of the lookup.
StatesCurrentStoredOf(profile_to_states_current_stored, profile) ==
  LET states == MapGet(profile_to_states_current_stored, profile)
  IN IF ~states.some THEN [error |-> "ProfileNotInScope", profile |-> profile]
     ELSE IF ~states.of.some
     THEN [error |-> "ProfileStatesCurrentNotDiscovered", profile |-> profile]
     ELSE [error |-> "none", profile |-> profile]

\* A diff_current_stored that looks up the states of profile_b before those
\* of profile_a.
DiffCurrentStoredProfileBFirst(c, profile_a, profile_b) ==
  LET params_specs == ParamsSpecsForDiff(c.profile_to_params_specs, profile_a, profile_b)
      states_a == StatesCurrentStoredOf(c.profile_to_states_current_stored, profile_a)
      states_b == StatesCurrentStoredOf(c.profile_to_states_current_stored, profile_b)
  IN IF ~(params_specs.some /\ params_specs.of.some)
     THEN [error |-> "ParamsSpecsNotDefinedForDiff", profile |-> NoEntry,
           params_specs |-> OptNone]
     ELSE IF states_b.error # "none"
     THEN [error |-> states_b.error, profile |-> states_b.profile, params_specs |-> OptNone]
     ELSE IF states_a.error # "none"
     THEN [error |-> states_a.error, profile |-> states_a.profile, params_specs |-> OptNone]
     ELSE [error |-> "none", profile |-> NoEntry, params_specs |-> params_specs.of]

\* What diff_current_stored returns before it calls diff_any: the first error
\* and the profile it names, or the params specs found for the diff.
DiffCurrentStored(c, profile_a, profile_b) ==
  LET params_specs == ParamsSpecsForDiff(c.profile_to_params_specs, profile_a, profile_b)
      states_a == StatesCurrentStoredOf(c.profile_to_states_current_stored, profile_a)
      states_b == StatesCurrentStoredOf(c.profile_to_states_current_stored, profile_b)
  IN IF ~(params_specs.some /\ params_specs.of.some)
     THEN [error |-> "ParamsSpecsNotDefinedForDiff", profile |-> NoEntry,
           params_specs |-> OptNone]
     ELSE IF states_a.error # "none"
     THEN [error |-> states_a.error, profile |-> states_a.profile, params_specs |-> OptNone]
     ELSE IF states_b.error # "none"
     THEN [error |-> states_b.error, profile |-> states_b.profile, params_specs |-> OptNone]
     ELSE [error |-> "none", profile |-> NoEntry, params_specs |-> params_specs.of]

\* What `state_diff_exec` of an item returns: a diff, no diff, or an error.
StateDiffExecOutcomes == {"Some", "None", "Err"}

\* A diff_any that keeps an entry for every item whose state_diff_exec did not
\* fail.
DiffAnyFilterMapKeepNone(state_diffs_mut, item, outcome) == Append(state_diffs_mut, item)

\* The closure of `try_filter_map` in diff_any, with the entry collected:
\* `state_diff_opt.map(|state_diff| (item.id().clone(), state_diff))`.
DiffAnyFilterMap(state_diffs_mut, item, outcome) ==
  IF outcome = "Some" THEN Append(state_diffs_mut, item) ELSE state_diffs_mut

\* StateDiffs::from(state_diffs_mut): the map's keys.
StateDiffsFrom(state_diffs_mut) == {state_diffs_mut[k] : k \in DOMAIN state_diffs_mut}

\* The profiles in scope, each with or without stored params specs and
\* stored current states; the params specs of a profile are named after it.
InitDiff ==
  /\ InitSession
  /\ \E scope \in SUBSET Profiles, profile_a \in Profiles, profile_b \in Profiles :
       \E with_specs \in SUBSET scope, with_states \in SUBSET scope :
         ctx = [pc |-> "diff", profile_a |-> profile_a, profile_b |-> profile_b,
                profile_to_params_specs |->
                  [p \in scope |-> IF p \in with_specs THEN OptSome(p) ELSE OptNone],
                profile_to_states_current_stored |->
                  [p \in scope |-> IF p \in with_states THEN OptSome(p) ELSE OptNone],
                diff |-> [error |-> "none", profile |-> NoEntry, params_specs |-> OptNone],
                stream_next |-> 1,
                state_diff_exec |-> [i \in Items |-> "none"],
                state_diffs_mut |-> <<>>,
                returned |-> [status |-> "none", state_diffs |-> {}]]

\* diff_current_stored up to its call of diff_any: an error is returned, or
\* diff_any begins.
DiffExec ==
  /\ ctx.pc = "diff"
  /\ LET diff == DiffCurrentStored(ctx, ctx.profile_a, ctx.profile_b)
     IN ctx' = IF diff.error = "none"
               THEN [ctx EXCEPT !.diff = diff, !.pc = "diff_any"]
               ELSE [ctx EXCEPT !.diff = diff, !.pc = "diff_done",
                                !.returned = [status |-> "Err", state_diffs |-> {}]]
  /\ UNCHANGED <<world, params, states_current_file, states_goal_file, cmd, pc, block_index,
                 resources, outcome_acc, errors, outcomes_chan, collate_error, task,
                 exec_done, interrupted, result, hist, budget, progress>>

\* diff_any: the stream yields the next item, and its `state_diff_exec`
\* returns; an error ends the stream and is what diff_any returns.
DiffAnyItem(outcome) ==
  /\ ctx.pc = "diff_any"
  /\ ctx.stream_next <= Cardinality(Items)
  /\ LET item == ItemsInOrder[ctx.stream_next]
         c == [ctx EXCEPT !.state_diff_exec[item] = outcome, !.stream_next = @ + 1]
     IN ctx' = IF outcome = "Err"
               THEN [c EXCEPT !.pc = "diff_done",
                              !.returned = [status |-> "Err", state_diffs |-> {}]]
               ELSE [c EXCEPT !.state_diffs_mut = DiffAnyFilterMap(@, item, outcome)]
  /\ UNCHANGED <<world, params, states_current_file, states_goal_file, cmd, pc, block_index,
                 resources, outcome_acc, errors, outcomes_chan, collate_error, task,
                 exec_done, interrupted, result, hist, budget, progress>>

\* diff_any: the stream has ended, and the entries collected are returned as
\* StateDiffs.
DiffAnyCollect ==
  /\ ctx.pc = "diff_any"
  /\ ctx.stream_next > Cardinality(Items)
  /\ ctx' = [ctx EXCEPT !.pc = "diff_done",
                         !.returned = [status |-> "Ok",
                                       state_diffs |-> StateDiffsFrom(ctx.state_diffs_mut)]]
  /\ UNCHANGED <<world, params, states_current_file, states_goal_file, cmd, pc, block_index,
                 resources, outcome_acc, errors, outcomes_chan, collate_error, task,
                 exec_done, interrupted, result, hist, budget, progress>>

NextDiff ==
  \/ DiffExec
  \/ \E outcome \in StateDiffExecOutcomes : DiffAnyItem(outcome)
  \/ DiffAnyCollect

SpecDiff == InitDiff /\ [][NextDiff]_vars

\* ------------------------------------------------------------------------
\* Streams over a flow graph: FnGraph::stream and its reverse and concurrent
\* variants, over every acyclic graph of the items.

\* The main variables, which the operations below leave alone.
sessionVars ==
  <<world, params, states_current_file, states_goal_file, cmd, pc, block_index,
    resources, outcome_acc, errors, outcomes_chan, collate_error, task, exec_done,
    interrupted, result, hist, budget, progress>>

\* Edges go from an item to one that was added to the graph after it.
StreamGraphs == SUBSET {e \in Items \X Items : StreamOrder(e[1]) < StreamOrder(e[2])}

\* The nodes that come before `n` in the direction of the stream.
StreamPredecessors(s, n) ==
  IF s.dir = "reverse"
  THEN {p \in Items : <<n, p>> \in s.edges}
  ELSE {p \in Items : <<p, n>> \in s.edges}

\* A stream that yields a node once one of its predecessors is complete.
StreamReadyAnyPredecessor(s, n) ==
  \/ StreamPredecessors(s, n) = {}
  \/ StreamPredecessors(s, n) \cap s.completed # {}

\* A node is ready once all its predecessors have been marked complete.
StreamReady(s, n) == StreamPredecessors(s, n) \subseteq s.completed

InitStream ==
  /\ InitSession
  /\ \E edges \in StreamGraphs, dir \in {"forward", "reverse"} :
       ctx = [pc |-> "stream", edges |-> edges, dir |-> dir,
              yields |-> [n \in Items |-> 0], completed |-> {}, ended |-> FALSE]

\* The stream yields a node that is ready and that it has not yielded.
StreamYield(n) ==
  /\ ctx.pc = "stream"
  /\ ~ctx.ended
  /\ ctx.yields[n] = 0
  /\ StreamReady(ctx, n)
  /\ ctx' = [ctx EXCEPT !.yields[n] = @ + 1]
  /\ UNCHANGED sessionVars

\* The consumer is done with a node that was yielded, and marks it complete.
StreamComplete(n) ==
  /\ ctx.pc = "stream"
  /\ ctx.yields[n] > 0
  /\ n \notin ctx.completed
  /\ ctx' = [ctx EXCEPT !.completed = @ \cup {n}]
  /\ UNCHANGED sessionVars

\* The stream ends once every node is complete.
StreamEnd ==
  /\ ctx.pc = "stream"
  /\ ~ctx.ended
  /\ ctx.completed = Items
  /\ ctx' = [ctx EXCEPT !.ended = TRUE]
  /\ UNCHANGED sessionVars

NextStream ==
  \/ \E n \in Items : StreamYield(n)
  \/ \E n \in Items : StreamComplete(n)
  \/ StreamEnd

\* Every node that is yielded is eventually marked complete, and the stream
\* is polled until it ends.
SpecStream == InitStream /\ [][NextStream]_vars /\ WF_vars(NextStream)

\* ------------------------------------------------------------------------
\* DiffCmd::diff_stored with the vec_copy item: the stored current and goal
\* states are read, and each item's `state_diff` is computed from them.

\* The states that the destination of vec_copy can be in, named after their
\* length, and the vec that each holds: the first elements of the goal 0..=7.
VecCopyStates == {"vec_0", "vec_4", "vec_8"}

VecCopyGoal == "vec_8"

VecCopyVec(state) ==
  LET n == CASE state = "vec_0" -> 0 [] state = "vec_4" -> 4 [] OTHER -> 8
  IN [k \in 1..n |-> k - 1]

\* VecDiff between a vec and one that it is a prefix of, or the reverse.
VecCopyDiff(vec_a, vec_b) ==
  IF Len(vec_a) < Len(vec_b)
  THEN <<[type |-> "Inserted", index |-> Len(vec_a),
          changes |-> SubSeq(vec_b, Len(vec_a) + 1, Len(vec_b))]>>
  ELSE IF Len(vec_a) > Len(vec_b)
  THEN <<[type |-> "Removed", index |-> Len(vec_b), len |-> Len(vec_a) - Len(vec_b)]>>
  ELSE <<>>

\* A diff command that discovers the current states instead of reading them.
DiffStatesCurrentDiscovered(c) == c.live

\* The current states that the diff block is given: those that were read.
DiffStatesCurrent(c) == c.states_current_stored

\* The stored states were written by an earlier discovery, if any; the
\* destinations may have changed since.
InitDiffStored ==
  /\ InitSession
  /\ \E live \in [Items -> VecCopyStates],
        file_current \in {FileNotExists} \cup {FileWith(s) : s \in [Items -> VecCopyStates]},
        file_goal \in {FileNotExists, FileWith([i \in Items |-> VecCopyGoal])} :
       ctx = [pc |-> "diff_stored", block |-> "StatesCurrentRead", live |-> live,
              file_current |-> file_current, file_goal |-> file_goal,
              states_current_stored |-> StatesNew, states_goal_stored |-> StatesNew,
              error |-> "none", state_diffs |-> [i \in Items |-> <<>>]]

\* StatesCurrentReadCmdBlock, first block of the command.
DiffStoredCurrentRead ==
  /\ ctx.pc = "diff_stored"
  /\ ctx.block = "StatesCurrentRead"
  /\ ctx' = IF ctx.file_current.exists
            THEN [ctx EXCEPT !.states_current_stored = StatesStored(ctx.file_current),
                             !.block = "StatesGoalRead"]
            ELSE [ctx EXCEPT !.error = "StatesCurrentDiscoverRequired",
                             !.pc = "diff_stored_done"]
  /\ UNCHANGED sessionVars

\* StatesGoalReadCmdBlock, second block of the command.
DiffStoredGoalRead ==
  /\ ctx.pc = "diff_stored"
  /\ ctx.block = "StatesGoalRead"
  /\ ctx' = IF ctx.file_goal.exists
            THEN [ctx EXCEPT !.states_goal_stored = StatesStored(ctx.file_goal),
                             !.block = "Diff"]
            ELSE [ctx EXCEPT !.error = "StatesDesiredDiscoverRequired",
                             !.pc = "diff_stored_done"]
  /\ UNCHANGED sessionVars

\* DiffCmdBlock, last block of the command: `state_diff` of every item.
DiffStoredExec ==
  /\ ctx.pc = "diff_stored"
  /\ ctx.block = "Diff"
  /\ ctx' = [ctx EXCEPT
       !.state_diffs = [i \in Items |->
                          VecCopyDiff(VecCopyVec(DiffStatesCurrent(ctx)[i]),
                                      VecCopyVec(ctx.states_goal_stored[i]))],
       !.pc = "diff_stored_done"]
  /\ UNCHANGED sessionVars

NextDiffStored == DiffStoredCurrentRead \/ DiffStoredGoalRead \/ DiffStoredExec

SpecDiffStored == InitDiffStored /\ [][NextDiffStored]_vars

\* ------------------------------------------------------------------------
\* The tar_x item: a tar file extracted into a destination directory.

\* Files `a`, `b`, `sub/c`, `sub/d`; a file of the destination that does not
\* exist has mtime 0.
TarXPaths == {"a", "b", "sub/c", "sub/d"}

TarXMtimeNone == 0

\* tar_x1.tar holds `a` and `sub/c`, tar_x2.tar holds `b` and `sub/d`.
TarX1 == [paths |-> {"a", "sub/c"}, mtime |-> 1]

TarX2 == [paths |-> {"b", "sub/d"}, mtime |-> 2]

\* mtime of a file written to the destination by hand.
TarXMtimeNow == 3

\* TarXStateCurrentFnSpec::files_extracted: the metadata of each file in the
\* destination.
TarXFilesExtracted(dest) ==
  {[path |-> p, mtime |-> dest[p]] : p \in {q \in TarXPaths : dest[q] # TarXMtimeNone}}

\* The goal state: the metadata of each file in the tar.
TarXFilesInTar(tar) == {[path |-> p, mtime |-> tar.mtime] : p \in tar.paths}

\* TarXStateDiff: files to add, to overwrite and to remove.
TarXStateDiff(files_current, files_goal) ==
  LET paths_current == {f.path : f \in files_current}
      paths_goal == {f.path : f \in files_goal}
  IN [added |-> {f \in files_goal : f.path \notin paths_current},
      modified |-> {f \in files_goal : f.path \in paths_current /\ f \notin files_current},
      removed |-> {f \in files_current : f.path \notin paths_goal}]

TarXInSync(diff) == diff.added = {} /\ diff.modified = {} /\ diff.removed = {}

\* TarXEnsureOpSpec::check.
TarXApplyCheck(diff) == IF TarXInSync(diff) THEN "ExecNotRequired" ELSE "ExecRequired"

\* An extraction that leaves the files that are not in the tar.
TarXExecKeepOthers(dest, diff) ==
  [p \in TarXPaths |->
     IF \E f \in diff.added \cup diff.modified : f.path = p
     THEN (CHOOSE f \in diff.added \cup diff.modified : f.path = p).mtime
     ELSE dest[p]]

\* TarXEnsureOpSpec::exec: the files of the tar that are missing or differ
\* are extracted with the mtime that the tar records, the others removed.
TarXExec(dest, diff) ==
  [p \in TarXPaths |->
     IF \E f \in diff.added \cup diff.modified : f.path = p
     THEN (CHOOSE f \in diff.added \cup diff.modified : f.path = p).mtime
     ELSE IF \E f \in diff.removed : f.path = p THEN TarXMtimeNone
     ELSE dest[p]]

\* Number of ensure commands run in a session.
MaxEnsures == 2

InitTarX ==
  /\ InitSession
  /\ \E tar \in {TarX1, TarX2},
        dest \in [TarXPaths -> {TarXMtimeNone, TarX1.mtime, TarX2.mtime, TarXMtimeNow}] :
       ctx = [pc |-> "tar_x", tar |-> tar, dest |-> dest, ensures |-> 0,
              check |-> "none", dest_before |-> dest, dest_initial |-> dest]

\* EnsureCmd on the flow of the one item: state discovery, diff, check, exec.
TarXEnsure ==
  /\ ctx.pc = "tar_x"
  /\ ctx.ensures < MaxEnsures
  /\ LET diff == TarXStateDiff(TarXFilesExtracted(ctx.dest), TarXFilesInTar(ctx.tar))
         check == TarXApplyCheck(diff)
     IN ctx' = [ctx EXCEPT
          !.ensures = @ + 1,
          !.check = check,
          !.dest_before = ctx.dest,
          !.dest = IF check = "ExecRequired" THEN TarXExec(ctx.dest, diff) ELSE ctx.dest]
  /\ UNCHANGED sessionVars

SpecTarX == InitTarX /\ [][TarXEnsure]_vars

\* ------------------------------------------------------------------------
\* Params and their Partial, as `#[derive(Params)]` generates them: a unit
\* struct, a struct, or an enum variant with named or unnamed fields, of up
\* to MaxParamKeys fields.
ParamsShapes == {"Struct", "EnumNamed", "EnumTuple"}

FieldNone == [some |-> FALSE, of |-> "-"]

FieldSome(of) == [some |-> TRUE, of |-> of]

ParamsPartials ==
  UNION {[shape : {shape}, fields : [1..n -> {FieldNone} \cup {FieldSome(v) : v \in ParamValues}]] :
           <<shape, n>> \in ParamsShapes \X (0..MaxParamKeys)}

\* A conversion that looks at the first field only, and takes the fields
\* that are None as empty.
ParamsTryFromPartialFirstField(partial) ==
  IF Len(partial.fields) = 0 \/ partial.fields[1].some
  THEN [ok |-> TRUE,
        params |-> [shape |-> partial.shape,
                    fields |-> [k \in DOMAIN partial.fields |-> partial.fields[k].of]]]
  ELSE [ok |-> FALSE, partial |-> partial]

\* `impl TryFrom<Partial> for Params`: Ok with the value of each field if
\* every field is Some, else Err with the partial.
ParamsTryFromPartial(partial) ==
  IF \A k \in DOMAIN partial.fields : partial.fields[k].some
  THEN [ok |-> TRUE,
        params |-> [shape |-> partial.shape,
                    fields |-> [k \in DOMAIN partial.fields |-> partial.fields[k].of]]]
  ELSE [ok |-> FALSE, partial |-> partial]

InitParamsPartial ==
  /\ InitSession
  /\ \E partial \in ParamsPartials :
       ctx = [pc |-> "params_partial", partial |-> partial, tried |-> [ok |-> FALSE]]

ParamsTryFromExec ==
  /\ ctx.pc = "params_partial"
  /\ ctx' = [ctx EXCEPT !.tried = ParamsTryFromPartial(ctx.partial),
                         !.pc = "params_partial_done"]
  /\ UNCHANGED sessionVars

SpecParamsPartial == InitParamsPartial /\ [][ParamsTryFromExec]_vars

\* ------------------------------------------------------------------------
\* DiffCmd::diff::<StatesTs0, StatesTs1> with the vec_copy item: one block
\* fetches each of the two states, by discovery or from storage, and the last
\* block computes each item's `state_diff`.
DiffStateSpecs == {"Current", "CurrentStored", "Goal", "GoalStored"}

\* A diff that discovers the states whichever DiffStateSpec it is given.
StatesFetchCmdBlockDiscover(diff_state_spec) ==
  IF diff_state_spec \in {"Current", "CurrentStored"}
  THEN "StatesDiscoverCurrent" ELSE "StatesDiscoverGoal"

\* DiffCmd::states_fetch_cmd_block_append: the block appended for a
\* DiffStateSpec.
StatesFetchCmdBlock(diff_state_spec) ==
  CASE diff_state_spec = "Current" -> "StatesDiscoverCurrent"
    [] diff_state_spec = "CurrentStored" -> "StatesCurrentRead"
    [] diff_state_spec = "Goal" -> "StatesDiscoverGoal"
    [] OTHER -> "StatesGoalRead"

DiffCmdBlocks(ts0, ts1) == <<StatesFetchCmdBlock(ts0), StatesFetchCmdBlock(ts1), "Diff">>

\* A diff that serializes the states it discovers, as StatesDiscoverCmd does.
DiffCmdFileAfterDiscoverSerialized(file, states) == FileWith(states)

\* The states file after a discover block of the diff command: neither the
\* block nor DiffCmd::diff serializes the states discovered.
DiffCmdFileAfterDiscover(file, states) == file

\* The states in the resource map that DiffCmdBlock reads for a StatesTs.
DiffCmdStates(c, ts) ==
  CASE ts = "Current" -> c.res.current
    [] ts = "CurrentStored" -> c.res.current_stored
    [] ts = "Goal" -> c.res.goal
    [] OTHER -> c.res.goal_stored

DiffCmdBlock(c) == DiffCmdBlocks(c.ts0, c.ts1)[c.block_index]

\* The stored states were written by an earlier discovery, if any; the
\* destinations may have changed since.
InitDiffCmd ==
  /\ InitSession
  /\ \E ts0 \in DiffStateSpecs, ts1 \in DiffStateSpecs,
        live \in [Items -> {"vec_4", "vec_8"}],
        file_current \in {FileNotExists, FileWith([i \in Items |-> "vec_0"]),
                          FileWith([i \in Items |-> "vec_4"])},
        file_goal \in {FileNotExists, FileWith([i \in Items |-> "vec_4"])} :
       ctx = [pc |-> "diff_cmd", ts0 |-> ts0, ts1 |-> ts1, block_index |-> 1,
              live |-> live, file_current |-> file_current, file_goal |-> file_goal,
              res |-> [current |-> StatesNew, goal |-> StatesNew,
                       current_stored |-> StatesNew, goal_stored |-> StatesNew],
              discovered |-> {}, error |-> "none",
              state_diffs |-> [i \in Items |-> <<>>]]

\* StatesCurrentReadCmdBlock or StatesGoalReadCmdBlock of the diff command.
DiffCmdStatesRead ==
  /\ ctx.pc = "diff_cmd"
  /\ DiffCmdBlock(ctx) \in {"StatesCurrentRead", "StatesGoalRead"}
  /\ ctx' =
       IF DiffCmdBlock(ctx) = "StatesCurrentRead"
       THEN IF ctx.file_current.exists
            THEN [ctx EXCEPT !.res.current_stored = StatesStored(ctx.file_current),
                             !.block_index = @ + 1]
            ELSE [ctx EXCEPT !.error = "StatesCurrentDiscoverRequired",
                             !.pc = "diff_cmd_done"]
       ELSE IF ctx.file_goal.exists
            THEN [ctx EXCEPT !.res.goal_stored = StatesStored(ctx.file_goal),
                             !.block_index = @ + 1]
            ELSE [ctx EXCEPT !.error = "StatesDesiredDiscoverRequired",
                             !.pc = "diff_cmd_done"]
  /\ UNCHANGED sessionVars

\* StatesDiscoverCmdBlock::current or ::goal of the diff command: the states
\* of every item are discovered, or an item fails and the command ends with
\* its error.
DiffCmdStatesDiscover(ok) ==
  /\ ctx.pc = "diff_cmd"
  /\ DiffCmdBlock(ctx) \in {"StatesDiscoverCurrent", "StatesDiscoverGoal"}
  /\ LET current == DiffCmdBlock(ctx) = "StatesDiscoverCurrent"
         states == IF current THEN ctx.live ELSE [i \in Items |-> VecCopyGoal]
         c == [ctx EXCEPT !.discovered = @ \cup {DiffCmdBlock(ctx)}]
     IN ctx' =
          IF ~ok
          THEN [c EXCEPT !.error = "ItemError", !.pc = "diff_cmd_done"]
          ELSE IF current
          THEN [c EXCEPT !.res.current = states,
                         !.file_current = DiffCmdFileAfterDiscover(@, states),
                         !.block_index = @ + 1]
          ELSE [c EXCEPT !.res.goal = states,
                         !.file_goal = DiffCmdFileAfterDiscover(@, states),
                         !.block_index = @ + 1]
  /\ UNCHANGED sessionVars

\* DiffCmdBlock, last block of the command: `state_diff` of every item between
\* the states of StatesTs0 and those of StatesTs1.
DiffCmdDiffExec ==
  /\ ctx.pc = "diff_cmd"
  /\ DiffCmdBlock(ctx) = "Diff"
  /\ ctx' = [ctx EXCEPT
       !.state_diffs = [i \in Items |->
                          VecCopyDiff(VecCopyVec(DiffCmdStates(ctx, ctx.ts0)[i]),
                                      VecCopyVec(DiffCmdStates(ctx, ctx.ts1)[i]))],
       !.pc = "diff_cmd_done"]
  /\ UNCHANGED sessionVars

NextDiffCmd ==
  \/ DiffCmdStatesRead
  \/ \E ok \in BOOLEAN : DiffCmdStatesDiscover(ok)
  \/ DiffCmdDiffExec

SpecDiffCmd == InitDiffCmd /\ [][NextDiffCmd]_vars

\* ------------------------------------------------------------------------
\* CmdBlockWrapper::exec with any block: the block's `exec` sends partials on
\* outcomes_tx while outcomes_rx_task folds them, the two being joined.
MaxPartials == 3

\* A partial is folded (`ok`), is folded as an item error (`item_err`), or
\* makes outcome_collate return an error (`collate_err`).
PartialKinds == {"ok", "item_err", "collate_err"}

PartialSeqs == UNION {[1..n -> PartialKinds] : n \in 0..MaxPartials}

\* A receiving task that goes on after outcome_collate returned an error.
OutcomesRxAfterCollateIgnoreError(partial) == "running"

\* outcomes_rx_task after `cmd_block.outcome_collate(..)?`: the task ends with
\* the error, or goes on receiving.
OutcomesRxAfterCollate(partial) == IF partial = "collate_err" THEN "err" ELSE "running"

\* An outcomes_tx that is not dropped when execution_task completes.
OutcomesTxKept(c) == FALSE

\* outcomes_tx is moved into execution_task, and dropped when it completes.
OutcomesTxDropped(c) == c.exec_returned

InitWrapper ==
  /\ InitSession
  /\ \E partials \in PartialSeqs, input \in BOOLEAN :
       ctx = [pc |-> "wrapper_input_fetch", input |-> input, partials |-> partials,
              sent |-> 0, chan |-> <<>>, exec_returned |-> FALSE, rx |-> "running",
              folded |-> <<>>, errors |-> {}, inserted |-> FALSE, returned |-> "none"]

\* `cmd_block.input_fetch(cmd_view.resources)?`.
WrapperInputFetch ==
  /\ ctx.pc = "wrapper_input_fetch"
  /\ ctx' = IF ctx.input THEN [ctx EXCEPT !.pc = "wrapper_join"]
            ELSE [ctx EXCEPT !.pc = "wrapper_done", !.returned = "InputFetchError"]
  /\ UNCHANGED sessionVars

\* execution_task: the block's `exec` sends its next partial.
WrapperExecSend ==
  /\ ctx.pc = "wrapper_join"
  /\ ~ctx.exec_returned
  /\ ctx.sent < Len(ctx.partials)
  /\ ctx' = [ctx EXCEPT !.sent = @ + 1, !.chan = Append(@, ctx.sent + 1)]
  /\ UNCHANGED sessionVars

\* execution_task: the block's `exec` future completes.
WrapperExecReturn ==
  /\ ctx.pc = "wrapper_join"
  /\ ~ctx.exec_returned
  /\ ctx.sent = Len(ctx.partials)
  /\ ctx' = [ctx EXCEPT !.exec_returned = TRUE]
  /\ UNCHANGED sessionVars

\* outcomes_rx_task: `outcomes_rx.recv()` returns a partial, which
\* outcome_collate folds into cmd_outcome or rejects.
WrapperCollate ==
  /\ ctx.pc = "wrapper_join"
  /\ ctx.rx = "running"
  /\ ctx.chan # <<>>
  /\ LET k == Head(ctx.chan)
         partial == ctx.partials[k]
     IN ctx' = [ctx EXCEPT
          !.chan = Tail(@),
          !.rx = OutcomesRxAfterCollate(partial),
          !.folded = IF partial = "collate_err" THEN @ ELSE Append(@, k),
          !.errors = IF partial = "item_err" THEN @ \cup {k} ELSE @]
  /\ UNCHANGED sessionVars

\* outcomes_rx_task: `outcomes_rx.recv()` returns None, the channel being
\* empty and its sender dropped.
WrapperRecvNone ==
  /\ ctx.pc = "wrapper_join"
  /\ ctx.rx = "running"
  /\ ctx.chan = <<>>
  /\ OutcomesTxDropped(ctx)
  /\ ctx' = [ctx EXCEPT !.rx = "ok"]
  /\ UNCHANGED sessionVars

\* `futures::join!` has completed: the error of outcome_collate is returned as
\* CmdBlockError::Block; without it the outcome is inserted into the resource
\* map, or the item errors are returned as CmdBlockError::Outcome.
WrapperJoined ==
  /\ ctx.pc = "wrapper_join"
  /\ ctx.exec_returned
  /\ ctx.rx # "running"
  /\ ctx' = IF ctx.rx = "err"
            THEN [ctx EXCEPT !.pc = "wrapper_done", !.returned = "CmdBlockError::Block"]
            ELSE IF ctx.errors = {}
            THEN [ctx EXCEPT !.pc = "wrapper_done", !.returned = "Ok", !.inserted = TRUE]
            ELSE [ctx EXCEPT !.pc = "wrapper_done", !.returned = "CmdBlockError::Outcome"]
  /\ UNCHANGED sessionVars

NextWrapper ==
  \/ WrapperInputFetch
  \/ WrapperExecSend
  \/ WrapperExecReturn
  \/ WrapperCollate
  \/ WrapperRecvNone
  \/ WrapperJoined

\* `join!` polls outcomes_rx_task whenever it can make progress; nothing is
\* assumed of the block's `exec`.
SpecWrapper ==
  /\ InitWrapper
  /\ [][NextWrapper]_vars
  /\ WF_vars(WrapperCollate \/ WrapperRecvNone \/ WrapperJoined)

\* ------------------------------------------------------------------------
\* Properties.

InApplyExec == pc = "exec" /\ Block = "ApplyExec"

\* The item's partial outcome of the block being run is on the channel, or is
\* folded into the accumulator.
PartialEmitted(i) ==
  \/ \E k \in 1..Len(outcomes_chan) : outcomes_chan[k].item = i
  \/ i \in hist.successes
  \/ i \in errors

\* The command being run, or the one that returned last.
LastCmd == IF pc = "idle" THEN result.cmd ELSE cmd

C2_ApplyOnlyIfExecRequired ==
  /\ \A i \in hist.apply_invoked : hist.apply_check[i] = "ExecRequired"
  /\ InApplyExec =>
       \A i \in Items :
         /\ task[i] = "running" => world[i] # StateTarget(cmd, i)
         /\ hist.apply_check[i] = "ExecNotRequired" =>
              /\ i \notin hist.apply_invoked
              /\ task[i] = "done"
              /\ world[i] = StateTarget(cmd, i)
              /\ \/ \E k \in 1..Len(outcomes_chan) :
                      /\ outcomes_chan[k].item = i
                      /\ outcomes_chan[k].kind = "apply_unchanged"
                 \/ outcome_acc.applied[i] = world[i]

\* C2 witness: in one run, one item is in sync and has emitted an unchanged
\* partial, while the apply of another is running.
C2_Witness ==
  /\ InApplyExec
  /\ \E i, j \in Items :
       /\ hist.apply_check[i] = "ExecNotRequired"
       /\ outcome_acc.applied[i] = world[i]
       /\ task[j] = "running"

\* Items whose stored state differs from the live state, or from the state
\* that the params ask for.
CurrentOutOfSync == {i \in Items : StatesStored(hist.current_before)[i] # world[i]}

GoalOutOfSync == {i \in Items : StatesStored(hist.goal_before)[i] # params[i]}

\* C3: with sync mode Both, the apply block is entered only when the states
\* discovered equal the stored ones; when the current or the goal state of
\* an item differs from the stored one, the command fails at the sync check
\* block with an out of sync error that names the diverging items, and no
\* apply is invoked.
C3_StateSyncMismatch ==
  /\ (InApplyExec /\ cmd.sync = "Both") =>
       /\ StatesStored(hist.current_before) = outcome_acc.previous
       /\ StatesStored(hist.goal_before) = params
  /\ (/\ pc = "idle"
      /\ result.cmd.kind = "apply"
      /\ result.cmd.sync = "Both"
      /\ result.block_index = 4
      /\ CurrentOutOfSync \cup GoalOutOfSync # {}) =>
       /\ result.status = "Err"
       /\ result.error = IF CurrentOutOfSync # {} THEN "StatesCurrentOutOfSync"
                         ELSE "StatesGoalOutOfSync"
       /\ result.error_items = IF CurrentOutOfSync # {} THEN CurrentOutOfSync
                               ELSE GoalOutOfSync
       /\ hist.apply_invoked = {}
       /\ hist.apply_check = [i \in Items |-> "none"]

\* C3 witness: the live state of an item was changed after discovery, and an
\* apply with sync mode Both has failed naming that item.
C3_Witness ==
  /\ pc = "idle"
  /\ result.cmd.kind = "apply"
  /\ result.cmd.sync = "Both"
  /\ result.status = "Err"
  /\ result.error = "StatesCurrentOutOfSync"
  /\ result.error_items = {"s3_bucket"}
  /\ world["s3_bucket"] # StatesStored(hist.current_before)["s3_bucket"]

\* Types that a block publishes in the resource map.
OutcomeTypes(b) ==
  CASE b = "StatesCurrentRead" -> {"StatesCurrentStored"}
    [] b = "StatesGoalRead" -> {"StatesGoalStored"}
    [] b = "StatesDiscoverCurrent" -> {"StatesCurrent"}
    [] b = "StatesDiscoverGoal" -> {"StatesGoal"}
    [] b = "StatesDiscoverCurrentAndGoal" -> {"StatesCurrent", "StatesGoal"}
    [] b = "ApplyStateSyncCheckGoal" -> {"StatesGoalStored", "StatesGoal"}
    [] b = "ApplyStateSyncCheckCurrentAndGoal" ->
         {"StatesCurrentStored", "StatesCurrent", "StatesGoalStored", "StatesGoal"}
    [] b = "ApplyExec" -> {"StatesPrevious", "StatesApplied", "StatesGoal"}
    [] OTHER -> {}

\* C4: when a block's exec has returned and its partials are folded, without
\* item errors the block's outcome is inserted into the resource map and the
\* block returns Ok; with item errors the outcome is not inserted, and what is
\* returned is the accumulator mapped through the block's partial execution
\* handler, with the item errors.
C4_BlockEnd ==
  [][/\ (pc = "exec" /\ pc' # "exec" /\ collate_error = NoError) =>
          IF errors = {}
          THEN /\ pc' = "block_done"
               /\ OutcomeTypes(Block) \subseteq resources'.present
               /\ resources' = OutcomeInsert(Block, outcome_acc, resources)
          ELSE /\ pc' = "block_failed"
               /\ OutcomeTypes(Block) \cap resources'.present = {}
               /\ resources' = resources
               /\ outcome_acc' = outcome_acc
               /\ errors' = errors
     /\ (pc = "block_failed" /\ pc' # "block_failed") =>
          /\ pc' = "idle"
          /\ result'.status = "Ok"
          /\ result'.kind = "BlockInterrupted"
          /\ result'.value = PartialExecHandler(Block, outcome_acc)
          /\ result'.errors = errors
          /\ result'.errors # {}]_vars

\* C4 witness: a discover block has returned item errors with the states of
\* the other items accumulated, and nothing was inserted.
C4_Witness ==
  /\ pc = "block_failed"
  /\ Block = "StatesDiscoverCurrentAndGoal"
  /\ errors # {}
  /\ hist.successes # {}
  /\ "StatesCurrent" \notin resources.present

\* C5: the blocks of a command run in pipeline order, a block being entered
\* only after the block before it returned Ok and inserted its outcome, which
\* the block finds in the resource map; once a block has failed no block is
\* entered, and the command returns the errors of that block.
C5_PipelineOrder ==
  [][/\ (pc # "idle" /\ block_index' # block_index) =>
          \/ /\ pc = "block_done"
             /\ block_index' = block_index + 1
             /\ pc' = "input_fetch"
             /\ errors = {}
             /\ collate_error = NoError
             /\ OutcomeTypes(Block) \subseteq resources'.present
             /\ resources' = resources
          \/ /\ pc' = "idle"
             /\ block_index' = 0
     /\ (pc \in {"exec", "block_failed"} /\ (errors # {} \/ collate_error # NoError)) =>
          /\ block_index' = block_index \/ pc' = "idle"
          /\ pc' \in {"exec", "block_failed", "idle"}
          /\ pc' = "idle" =>
               /\ result'.block_index = block_index
               /\ IF collate_error # NoError
                  THEN /\ result'.status = "Err"
                       /\ result'.error = collate_error.name
                       /\ result'.errors = {}
                  ELSE /\ result'.status = "Ok"
                       /\ result'.errors = errors]_vars

\* C5 witness: the apply block, the last of five, is being run.
C5_Witness ==
  /\ InApplyExec
  /\ block_index = 5
  /\ hist.apply_invoked # {}

\* The apply block of an apply command, running or returned with item errors.
ApplyExecBlock == pc \in {"exec", "block_failed"} /\ Block = "ApplyExec"

\* The last command is an apply that ended in its apply block.
ApplyExecReturned ==
  /\ pc = "idle"
  /\ result.cmd.kind = "apply"
  /\ result.status = "Ok"
  /\ result.block_index = Len(CmdBlocks(result.cmd))

\* C6: when an item's apply has returned an error, no item after it in the
\* direction of traversal is started, none of them is among the successes or
\* the errors that the command returns, and the block returns only once every
\* item whose apply was invoked has completed and has its partial folded.
C6_ApplyError ==
  /\ ApplyExecBlock =>
       \A i \in Items :
         task[i] = "failed" =>
           \A d \in DescendantsIn(ApplyDirection(cmd), i) :
             /\ task[d] = "pending"
             /\ d \notin hist.apply_invoked
             /\ hist.apply_check[d] = "none"
  /\ (pc = "block_failed" /\ Block = "ApplyExec") =>
       /\ outcomes_chan = <<>>
       /\ \A i \in Items :
            /\ task[i] # "running"
            /\ task[i] \in {"done", "failed"} => i \in hist.successes \cup errors
            /\ i \in hist.apply_invoked => i \in hist.successes \cup errors
  /\ (ApplyExecReturned /\ result.kind = "BlockInterrupted") =>
       /\ hist.apply_invoked \subseteq result.successes \cup result.errors
       /\ \A i \in result.errors :
            \A d \in DescendantsIn(ApplyDirection(result.cmd), i) :
              /\ d \notin result.successes \cup result.errors
              /\ hist.apply_check[d] = "none"

\* C6 witness: the apply of app_download failed, the apply of s3_bucket was
\* invoked and has succeeded, s3_object was never started, and the block has
\* returned.
C6_Witness ==
  /\ pc = "block_failed"
  /\ Block = "ApplyExec"
  /\ task["app_download"] = "failed"
  /\ "s3_bucket" \in hist.apply_invoked
  /\ "s3_bucket" \in hist.successes
  /\ task["s3_object"] = "pending"

\* C7 as stated, for a command that returns ExecutionInterrupted: the item
\* errors and the successes are at most the items of the flow, and the entry
\* in states_current.yaml of every item that was not attempted is as it was
\* before the command.
C7_InterruptSafety ==
  (pc = "idle" /\ result.kind = "ExecutionInterrupted") =>
    /\ Cardinality(result.errors) + Cardinality(result.successes) <= Cardinality(Items)
    /\ \A i \in Items :
         hist.apply_check[i] = "none" =>
           StatesStored(states_current_file)[i] = StatesStored(hist.current_before)[i]

\* C8: once the interrupt signal is observed in a block, an item that is not
\* started stays so, and the block returns only once every item that was
\* started has completed and has its partial folded.
C8_InterruptNoNewTasks ==
  [][(pc = "exec" /\ interrupted /\ IsItemBlock(Block)) =>
       /\ \A i \in Items : task[i] = "pending" => task'[i] = "pending"
       /\ pc' # "exec" =>
            /\ outcomes_chan = <<>>
            /\ \A i \in Items :
                 /\ task[i] # "running"
                 /\ task[i] # "pending" => i \in hist.successes \cup errors]_vars

\* C8 witness: the interrupt signal has fired while the apply of app_download
\* runs and s3_bucket, which is ready, is not started.
C8_Witness ==
  /\ InApplyExec
  /\ interrupted
  /\ task["app_download"] = "running"
  /\ task["s3_bucket"] = "pending"

\* C9 as stated, for an apply command that was not interrupted: after the
\* command has returned, the entry in states_current.yaml of every item whose
\* apply_check returned ExecNotRequired is as it was before the command.
C9_Idempotence ==
  (/\ pc = "idle"
   /\ result.cmd.kind = "apply"
   /\ result.status = "Ok"
   /\ result.kind # "ExecutionInterrupted") =>
    \A i \in Items :
      hist.apply_check[i] = "ExecNotRequired" =>
        StatesStored(states_current_file)[i] = StatesStored(hist.current_before)[i]

\* C10: after an ensure has completed without item errors, states_current.yaml
\* holds for every item the state applied that the ensure returned, which is
\* the item's goal state; a read of the stored current states that follows
\* returns those states; and in an ensure that follows, apply_check returns
\* ExecNotRequired for every item it is run for, which is every item if that
\* ensure completes.
C10_EnsureThenStored ==
  /\ (pc = "idle" /\ EnsuredJustBefore) =>
       /\ states_current_file = FileWith(result.value.applied)
       /\ result.value.applied = params
       /\ result.value.applied = world
  /\ (pc = "idle" /\ hist.after_ensure /\ result.cmd.kind = "read") =>
       /\ result.status = "Ok"
       /\ result.value.previous = params
  /\ (hist.after_ensure /\ LastCmd.kind = "apply" /\ LastCmd.apply_for = "Ensure") =>
       /\ \A i \in Items : hist.apply_check[i] \in {"none", "ExecNotRequired"}
       /\ hist.apply_invoked = {}
       /\ (pc = "idle" /\ result.kind = "Complete") =>
            \A i \in Items : hist.apply_check[i] = "ExecNotRequired"

\* C10 witness: an ensure has completed, and the ensure that followed it has
\* completed with ExecNotRequired for every item, the stored current states
\* being the goal states.
C10_Witness ==
  /\ pc = "idle"
  /\ hist.after_ensure
  /\ result.cmd.kind = "apply"
  /\ result.cmd.apply_for = "Ensure"
  /\ ~result.cmd.dry
  /\ result.kind = "Complete"
  /\ \A i \in Items : hist.apply_check[i] = "ExecNotRequired"
  /\ states_current_file = FileWith(params)

\* ------------------------------------------------------------------------
\* C11: while a dry apply runs, with any sync mode, no step changes the stored
\* current states, the stored goal states, or the real state of any item.
C11_DryApplyNoEffect ==
  [][(cmd.kind = "apply" /\ cmd.dry /\ pc # "idle")
       => /\ world' = world
          /\ states_current_file' = states_current_file
          /\ states_goal_file' = states_goal_file]_vars

\* A dry apply has run the apply of an item that needed it and has completed;
\* storage is as it was when the command started.
C11_Witness ==
  /\ pc = "idle"
  /\ result.cmd.kind = "apply"
  /\ result.cmd.dry
  /\ result.kind = "Complete"
  /\ hist.apply_invoked = Items
  /\ result.successes = Items
  /\ states_current_file = hist.current_before
  /\ states_goal_file = hist.goal_before

\* ------------------------------------------------------------------------
\* C12: once a discover command (current, goal, or current and goal) has
\* completed, each states file it writes deserializes to exactly the states
\* map it returned; and a read of the stored current states, run next in a
\* fresh context, returns the current states map that the discover returned.
C12_DiscoverRoundTrip ==
  /\ (pc = "idle" /\ result.kind = "Complete" /\ result.cmd.kind \in DiscoverKinds
        /\ result.cmd.serialize) =>
       /\ result.cmd.kind \in {"discover", "discover_current"} =>
            /\ states_current_file.exists
            /\ StatesDeserialize(states_current_file.content) = result.value.previous
       /\ result.cmd.kind \in {"discover", "discover_goal"} =>
            /\ states_goal_file.exists
            /\ StatesDeserialize(states_goal_file.content) = result.value.goal
  /\ (pc = "idle" /\ result.cmd.kind = "read" /\ hist.discovered_before # StatesNew) =>
       /\ result.status = "Ok"
       /\ result.value.previous = hist.discovered_before

\* A read that completed right after a discover of the current states of a
\* world in which an item is not in its clean state.
C12_Witness ==
  /\ pc = "idle"
  /\ result.cmd.kind = "read"
  /\ result.kind = "Complete"
  /\ \A i \in Items : HasEntry(hist.discovered_before, i)
  /\ \E i \in Items : hist.discovered_before[i] # StateClean
  /\ result.value.previous = world

\* A discover of the goal states alone has completed and written them.
C12_WitnessGoal ==
  /\ pc = "idle"
  /\ result.cmd.kind = "discover_goal"
  /\ result.kind = "Complete"
  /\ StatesDeserialize(states_goal_file.content) = params

\* ------------------------------------------------------------------------
\* C13: a command that reads the stored current states when the current
\* states file was never written fails with StatesCurrentDiscoverRequired, and
\* a read of the stored goal states when the goal states file was never
\* written fails with StatesDesiredDiscoverRequired; neither returns a value,
\* so a missing file is never an empty states map.
C13_DiscoverRequired ==
  (pc = "idle" /\ result.status # "none") =>
    /\ (result.cmd.kind \in {"read", "apply"} /\ ~hist.current_before.exists) =>
         /\ result.status = "Err"
         /\ result.error = "StatesCurrentDiscoverRequired"
         /\ result.value = ExecutionOutcomeDefault
    /\ (result.cmd.kind = "read_goal" /\ ~hist.goal_before.exists) =>
         /\ result.status = "Err"
         /\ result.error = "StatesDesiredDiscoverRequired"
         /\ result.value = ExecutionOutcomeDefault

\* A read of the stored goal states has failed for want of the file, while
\* the current states file exists.
C13_Witness ==
  /\ pc = "idle"
  /\ result.cmd.kind = "read_goal"
  /\ result.error = "StatesDesiredDiscoverRequired"
  /\ ~states_goal_file.exists
  /\ states_current_file.exists

\* A read of the stored current states has failed for want of the file.
C13_WitnessCurrent ==
  /\ pc = "idle"
  /\ result.cmd.kind = "read"
  /\ result.error = "StatesCurrentDiscoverRequired"
  /\ ~states_current_file.exists

\* ------------------------------------------------------------------------
\* C14: with sync mode Current, an apply command that has discovered a
\* current state differing from the stored one fails at the sync check block
\* with StatesCurrentOutOfSync naming the diverging items, and no apply is
\* invoked.
C14_SyncCurrentMismatch ==
  (/\ pc = "idle"
   /\ result.cmd.kind = "apply"
   /\ result.cmd.sync = "Current"
   /\ result.block_index = 4
   /\ CurrentOutOfSync # {}) =>
    /\ result.status = "Err"
    /\ result.error = "StatesCurrentOutOfSync"
    /\ result.error_items = CurrentOutOfSync
    /\ hist.apply_invoked = {}

C17_ParamsMerge ==
  ctx.pc = "params_merged" =>
    /\ ctx.params_file.some =>
         /\ DOMAIN ctx.params = DOMAIN ctx.provided \cup DOMAIN ctx.params_file.map
         /\ \A k \in DOMAIN ctx.provided : ctx.params[k] = ctx.provided[k]
         /\ \A k \in DOMAIN ctx.params_file.map \ DOMAIN ctx.provided :
              ctx.params[k] = ctx.params_file.map[k]
    /\ ~ctx.params_file.some => ctx.params = ctx.provided

\* A merge in which a key is provided and stored with different values, and
\* another key is only stored.
C17_Witness ==
  /\ ctx.pc = "params_merged"
  /\ ctx.params_file.some
  /\ \E k \in DOMAIN ctx.provided \cap DOMAIN ctx.params_file.map :
       ctx.provided[k] # ctx.params_file.map[k]
  /\ DOMAIN ctx.params_file.map \ DOMAIN ctx.provided # {}
  /\ DOMAIN ctx.provided \ DOMAIN ctx.params_file.map # {}

\* ------------------------------------------------------------------------
\* The profile has stored params specs.
HasParamsSpecs(profile) ==
  /\ profile \in DOMAIN ctx.profile_to_params_specs
  /\ ctx.profile_to_params_specs[profile].some

\* C18: the diff of two profiles fails with ParamsSpecsNotDefinedForDiff only
\* when neither profile has stored params specs; otherwise the params specs
\* used are those of profile_a if it has some, else those of profile_b.
C18_ParamsSpecsFallback ==
  ctx.pc = "diff_done" =>
    /\ ctx.diff.error = "ParamsSpecsNotDefinedForDiff" =>
         ~HasParamsSpecs(ctx.profile_a) /\ ~HasParamsSpecs(ctx.profile_b)
    /\ ctx.diff.error = "none" =>
         ctx.diff.params_specs =
           OptSome(IF HasParamsSpecs(ctx.profile_a) THEN ctx.profile_a ELSE ctx.profile_b)

\* ------------------------------------------------------------------------
\* Ids for which a params spec was provided this run or was stored.
ParamsSpecsGiven ==
  ctx.params_specs_provided \cup
    (IF ctx.params_specs_stored.some THEN ctx.params_specs_stored.of ELSE {})

SeqRange(seq) == {seq[k] : k \in DOMAIN seq}

\* C16: the context build succeeds exactly when every item of the flow has a
\* params spec, provided or stored, and every provided or stored params spec
\* is for an item of the flow; then each item has one params spec, the
\* provided one if there is one. Otherwise it fails with ParamsSpecsMismatch,
\* which lists exactly the items without a params spec, and the provided and
\* the stored params specs that match no item.
C16_ParamsSpecsCoverage ==
  ctx.pc = "built" =>
    /\ ctx.built.error = "none" <=> ParamsSpecsGiven = Items
    /\ ctx.built.error = "none" =>
         /\ DOMAIN ctx.built.params_specs = Items
         /\ \A i \in Items : ctx.built.params_specs[i] = "provided"
                                 <=> i \in ctx.params_specs_provided
    /\ ctx.built.error # "none" =>
         /\ ctx.built.error = "ParamsSpecsMismatch"
         /\ SeqRange(ctx.built.item_ids_with_no_params_specs) = Items \ ParamsSpecsGiven
         /\ Len(ctx.built.item_ids_with_no_params_specs)
              = Cardinality(Items \ ParamsSpecsGiven)
         /\ ctx.built.params_specs_provided_mismatches = ctx.params_specs_provided \ Items
         /\ ctx.params_specs_stored.some =>
              ctx.built.params_specs_stored_mismatches
                = [some |-> TRUE, of |-> ctx.params_specs_stored.of \ Items]

\* A build that fails for an item without a params spec, although a params
\* spec is stored for another item and one is provided for no item of the
\* flow.
C16_Witness ==
  /\ ctx.pc = "built"
  /\ ctx.built.error = "ParamsSpecsMismatch"
  /\ ctx.built.item_ids_with_no_params_specs = <<"s3_bucket">>
  /\ ctx.built.params_specs_provided_mismatches = {"removed_item"}
  /\ ctx.built.params_specs_stored_mismatches = [some |-> TRUE, of |-> {}]
  /\ ctx.params_specs_stored.of # {}

\* ------------------------------------------------------------------------
\* The params of `iam_role` were resolved, and not fully.
IamRoleUnresolved ==
  /\ ctx.pc \in {"resolve", "resolve_done"}
  /\ ctx.iam_role # "pending"
  /\ ~ctx.params_partial.managed_policy_arn.some

\* C19: when the params of an item do not resolve fully, the discovery of
\* current states goes on with the partial params (try_state_current) and
\* the failure is no item error; the discovery of goal states, apply and dry
\* apply record an item error for the item and do not call its function.
C19_ParamsResolveFallback ==
  IamRoleUnresolved =>
    IF ctx.phase = "current"
    THEN /\ ctx.iam_role \in {"partial", "done", "failed"}
         /\ ctx.fn_invoked \in {"none", "try_state_current"}
         /\ ctx.iam_role # "failed" => "iam_role" \notin ctx.item_errors
    ELSE /\ ctx.iam_role = "ParamsResolveError"
         /\ "iam_role" \in ctx.item_errors
         /\ ctx.fn_invoked = "none"

\* The discovery of current states has called try_state_current for an item
\* whose predecessor exists but has no generated arn yet.
C19_Witness ==
  /\ IamRoleUnresolved
  /\ ctx.phase = "current"
  /\ ctx.iam_policy_in_map.some
  /\ ctx.iam_policy_in_map.of.kind = "Some"
  /\ ctx.fn_invoked = "try_state_current"
  /\ ctx.item_errors = {}

\* An apply has recorded an item error for the item whose params did not
\* resolve, its predecessor having completed.
C19_WitnessApply ==
  /\ IamRoleUnresolved
  /\ ctx.phase = "apply"
  /\ ctx.iam_policy = "done"
  /\ ctx.item_errors = {"iam_role"}

\* The position of a progress status along Initialized, Running, Complete.
ProgressRank(status) ==
  CASE status = "Initialized" -> 0
    [] status = "Running" -> 1
    [] OTHER -> 2

\* C20: within a command, every step leaves each item's progress status where
\* it was or moves it forward along Initialized, Running, Complete; a status
\* that is Complete (Success, Fail or Interrupted) is never changed again.
C20_ProgressMonotone ==
  [][pc # "idle" =>
       \A i \in Items :
         /\ ProgressRank(progress'[i]) >= ProgressRank(progress[i])
         /\ ProgressRank(progress[i]) = 2 => progress'[i] = progress[i]]_vars

\* C20 witness: an apply command has returned, in which an item was ticked
\* by the discover block, run by the apply block, and completed by it.
C20_Witness ==
  /\ pc = "idle"
  /\ result.status = "Ok"
  /\ result.cmd.kind = "apply"
  /\ result.kind = "Complete"
  /\ \E i \in Items :
       /\ i \in hist.apply_invoked
       /\ progress[i] = "CompleteSuccess"

\* C20 witness: an interrupted command has returned, with one item complete
\* and another one, not yet complete, marked as interrupted.
C20_WitnessInterrupted ==
  /\ pc = "idle"
  /\ \E i, j \in Items :
       /\ progress[i] = "CompleteInterrupted"
       /\ progress[j] = "CompleteSuccess"

\* C21: a stream over a flow graph yields each node exactly once, yields a
\* node only after every predecessor in the direction of the stream has been
\* marked complete, and, every yielded node being marked complete in the end,
\* ends after all nodes have been yielded.
C21_StreamOnceInOrder ==
  /\ [](ctx.pc = "stream" =>
         /\ \A n \in Items : ctx.yields[n] <= 1
         /\ ctx.ended => \A n \in Items : ctx.yields[n] = 1)
  /\ [][ctx.pc = "stream" =>
          \A n \in Items :
            ctx'.yields[n] > ctx.yields[n] =>
              \A p \in Items :
                (IF ctx.dir = "reverse" THEN <<n, p>> ELSE <<p, n>>) \in ctx.edges
                  => p \in ctx.completed]_vars
  /\ <>(ctx.pc = "stream" /\ ctx.ended)

\* C21 witness: a reverse stream over a graph with two edges into one node
\* has ended.
C21_Witness ==
  /\ ctx.pc = "stream"
  /\ ctx.dir = "reverse"
  /\ \E n \in Items : Cardinality({e \in ctx.edges : e[2] = n}) = 2
  /\ ctx.ended

\* C22: a diff over the stored current and stored goal states returns, for
\* each item, the diff between the states that the preceding discovery
\* recorded, whatever the destinations hold by now: no change for equal
\* states, and otherwise one insertion, at the end of the stored current
\* state, of the elements of the goal that it lacks (for stored current []
\* and stored goal [0..=7], all eight elements at index 0).
C22_DiffStored ==
  (ctx.pc = "diff_stored_done" /\ ctx.error = "none") =>
    \A i \in Items :
      LET recorded == StatesDeserialize(ctx.file_current.content)[i]
          n == CASE recorded = "vec_0" -> 0 [] recorded = "vec_4" -> 4 [] recorded = "vec_8" -> 8
      IN /\ n = 8 => ctx.state_diffs[i] = <<>>
         /\ n < 8 => ctx.state_diffs[i] =
              <<[type |-> "Inserted", index |-> n, changes |-> [k \in 1..(8 - n) |-> n + k - 1]]>>
         /\ n = 0 => ctx.state_diffs[i] =
              <<[type |-> "Inserted", index |-> 0, changes |-> <<0, 1, 2, 3, 4, 5, 6, 7>>]>>

\* C22 witness: the diff has been computed for an item whose stored current
\* state is [] while its destination holds all eight elements by now.
C22_Witness ==
  /\ ctx.pc = "diff_stored_done"
  /\ ctx.error = "none"
  /\ \E i \in Items :
       /\ ctx.states_current_stored[i] = "vec_0"
       /\ ctx.live[i] = "vec_8"
       /\ ctx.state_diffs[i] # <<>>

\* C23: after an ensure of tar_x the destination holds exactly the files of
\* the tar, each with the mtime that the tar records, whatever stale files it
\* held before; a second ensure reports ExecNotRequired and leaves the
\* destination as it was.
C23_TarXIdempotent ==
  ctx.pc = "tar_x" =>
    /\ ctx.ensures >= 1 =>
         \A p \in TarXPaths :
           ctx.dest[p] = IF p \in ctx.tar.paths THEN ctx.tar.mtime ELSE 0
    /\ ctx.ensures >= 2 =>
         /\ ctx.check = "ExecNotRequired"
         /\ ctx.dest = ctx.dest_before

\* C23 witness: tar_x2 has been ensured twice over a destination that held
\* the files of tar_x1 and files `b` and `sub/d` written by hand.
C23_Witness ==
  /\ ctx.pc = "tar_x"
  /\ ctx.tar = TarX2
  /\ ctx.ensures = 2
  /\ ctx.dest_initial = [p \in TarXPaths |-> IF p \in TarX1.paths THEN TarX1.mtime ELSE 3]
  /\ ctx.dest = [p \in TarXPaths |-> IF p \in TarX2.paths THEN TarX2.mtime ELSE 0]

\* C24: converting a params Partial into Params succeeds if and only if every
\* field of the partial is Some, and then yields exactly the values of the
\* fields; otherwise it fails and hands back the partial, fields unchanged.
C24_ParamsTryFromPartial ==
  ctx.pc = "params_partial_done" =>
    LET fields == ctx.partial.fields
        all_some == ~\E k \in 1..Len(fields) : fields[k] = FieldNone
    IN /\ ctx.tried.ok <=> all_some
       /\ ctx.tried.ok =>
            /\ ctx.tried.params.shape = ctx.partial.shape
            /\ Len(ctx.tried.params.fields) = Len(fields)
            /\ \A k \in 1..Len(fields) : FieldSome(ctx.tried.params.fields[k]) = fields[k]
       /\ ~ctx.tried.ok => ctx.tried.partial = ctx.partial

\* C24 witness: a struct partial whose first field is Some and whose second
\* field is None has been converted, and handed back.
C24_Witness ==
  /\ ctx.pc = "params_partial_done"
  /\ ctx.partial = [shape |-> "Struct", fields |-> <<FieldSome("a"), FieldNone>>]
  /\ ~ctx.tried.ok

\* C24 witness: an enum partial with all fields Some has been converted.
C24_WitnessOk ==
  /\ ctx.pc = "params_partial_done"
  /\ ctx.partial = [shape |-> "EnumNamed", fields |-> <<FieldSome("a")>>]
  /\ ctx.tried.ok

\* C25: every partial that a block's exec sends on the channel is folded into
\* the accumulator by outcome_collate exactly once and in the order sent:
\* while no fold has failed, the partials folded followed by those in the
\* channel are the partials sent, and when the block decides between success
\* and item errors the channel is empty and all that was sent has been folded.
C25_PartialsFolded ==
  /\ []((pc = "exec" /\ collate_error = NoError) =>
          hist.folded \o outcomes_chan = hist.sent)
  /\ [][(pc = "exec" /\ pc' \in {"block_done", "block_failed"}) =>
          /\ ExecReturned
          /\ outcomes_chan = <<>>
          /\ hist.folded = hist.sent]_vars

\* C25 witness: the apply block has folded the partials of all three items,
\* one of them an item error, and is about to decide.
C25_Witness ==
  /\ BlockJoined
  /\ Block = "ApplyExec"
  /\ collate_error = NoError
  /\ Len(hist.folded) = 3
  /\ errors # {}

\* C26 as stated: when some items fail in a block, the command returns the
\* item errors together with the block's partially accumulated outcome mapped
\* into the command's outcome type; for an apply that ends in its apply
\* block, the states applied hold an entry for every item applied so far.
C26_PartialOutcomeReturned ==
  (pc = "idle" /\ result.status = "Ok" /\ result.kind = "BlockInterrupted") =>
    /\ result.errors # {}
    /\ ApplyExecReturned =>
         \A i \in result.successes : result.value.applied[i] # NoEntry

\* C27 as stated: if an apply ends with item errors, in a discover block or
\* in the apply block, the entry in states_current.yaml of every item that
\* was not attempted in that block is as it was before the command.
C27_ItemErrorsKeepStored ==
  (pc = "idle" /\ result.cmd.kind = "apply" /\ result.status = "Ok"
     /\ result.kind = "BlockInterrupted") =>
    \A i \in Items \ (result.successes \cup result.errors) :
      StatesStored(states_current_file)[i] = StatesStored(hist.current_before)[i]

\* C28: a discover of the current or goal states that is told not to
\* serialize returns the states it has just discovered and leaves both states
\* files as they were; a read of the stored states that follows returns the
\* states that were stored before the discover, or fails as before it if none
\* were.
C28_DiscoverUnserialized ==
  /\ (pc = "idle" /\ result.kind = "Complete" /\ result.cmd.kind \in DiscoverKinds
        /\ ~result.cmd.serialize) =>
       /\ result.cmd.kind \in {"discover", "discover_current"} => result.value.previous = world
       /\ result.cmd.kind \in {"discover", "discover_goal"} => result.value.goal = params
       /\ states_current_file = hist.current_before
       /\ states_goal_file = hist.goal_before
  /\ (pc = "idle" /\ result.cmd.kind = "read" /\ hist.unserialized_before.after) =>
       IF hist.unserialized_before.current.exists
       THEN /\ result.status = "Ok"
            /\ result.value.previous = StatesDeserialize(hist.unserialized_before.current.content)
       ELSE result.status = "Err"
  /\ (pc = "idle" /\ result.cmd.kind = "read_goal" /\ hist.unserialized_before.after) =>
       IF hist.unserialized_before.goal.exists
       THEN /\ result.status = "Ok"
            /\ result.value.goal = StatesDeserialize(hist.unserialized_before.goal.content)
       ELSE result.status = "Err"

\* C28 witness: the stored current states have been read after a discover
\* that did not serialize, and differ from the live states that it returned.
C28_Witness ==
  /\ pc = "idle"
  /\ result.cmd.kind = "read"
  /\ result.status = "Ok"
  /\ result.kind = "Complete"
  /\ hist.unserialized_before.after
  /\ \E i \in Items : result.value.previous[i] # world[i]

\* C28 witness: a discover of the goal states that did not serialize has
\* returned goal states that differ from the stored ones.
C28_WitnessGoal ==
  /\ pc = "idle"
  /\ result.cmd.kind = "discover_goal"
  /\ ~result.cmd.serialize
  /\ result.kind = "Complete"
  /\ states_goal_file.exists
  /\ StatesDeserialize(states_goal_file.content) # result.value.goal

C29_WitnessStandalone ==
  /\ pc = "idle"
  /\ result.kind = "Complete"
  /\ result.cmd.kind = "discover_current"
  /\ result.cmd.independence = "Standalone"
  /\ \A i \in Items : ProgressRank(progress[i]) = 2

C31_CleanDiscoverForwardApplyReverse ==
  /\ [](InApplyExec /\ cmd.apply_for = "Clean" =>
          /\ \A i \in Items : resources.item_state[i] # NoEntry
          /\ \A i \in hist.apply_invoked :
               \A s \in Successors(i) :
                 /\ task[s] = "done"
                 /\ ~cmd.dry => world[s] = StateClean)
  /\ [][(pc = "exec" /\ cmd.kind = "apply" /\ cmd.apply_for = "Clean") =>
          \A i \in Items :
            /\ (IsDiscoverBlock(Block) /\ task[i] = "pending" /\ task'[i] # "pending") =>
                 \A p \in Predecessors(i) : task[p] \in {"done", "failed"}
            /\ (Block = "ApplyExec" /\ world'[i] # world[i]) =>
                 /\ world'[i] = StateClean
                 /\ \A s \in Successors(i) : task[s] = "done" /\ world[s] = StateClean]_vars

\* C31 witness: in a clean that is not dry, the clean of s3_bucket is running
\* after s3_object, its successor, was cleaned, while app_download, which was
\* discovered as well, is still to be cleaned.
C31_Witness ==
  /\ InApplyExec
  /\ cmd.apply_for = "Clean"
  /\ ~cmd.dry
  /\ task["s3_bucket"] = "running"
  /\ "s3_object" \in hist.apply_invoked
  /\ task["s3_object"] = "done"
  /\ world["s3_object"] = StateClean
  /\ world["s3_bucket"] # StateClean
  /\ world["app_download"] # StateClean
  /\ \A i \in Items : resources.item_state[i] # NoEntry

\* C32: no step of the diff command changes states_current.yaml or
\* states_goal.yaml: the states that the command discovers for Current or
\* Goal are given to the diff and are not serialized, and a diff of the stored
\* states (CurrentStored, GoalStored) runs no discover block.
C32_DiffKeepsStored ==
  /\ [][ctx.pc = "diff_cmd" =>
          /\ ctx'.file_current = ctx.file_current
          /\ ctx'.file_goal = ctx.file_goal]_vars
  /\ [](ctx.pc \in {"diff_cmd", "diff_cmd_done"} =>
          /\ (ctx.ts0 = "CurrentStored" /\ ctx.ts1 = "GoalStored") => ctx.discovered = {}
          /\ (ctx.pc = "diff_cmd_done" /\ ctx.error = "none" /\ ctx.ts0 = "Current") =>
               \A i \in Items :
                 ctx.state_diffs[i] =
                   VecCopyDiff(VecCopyVec(ctx.live[i]),
                               VecCopyVec(DiffCmdStates(ctx, ctx.ts1)[i])))

\* C32 witness: a diff between the current and the goal states, both
\* discovered, has returned the diffs of states that differ from the stored
\* ones, and the stored states are as they were.
C32_Witness ==
  /\ ctx.pc = "diff_cmd_done"
  /\ ctx.error = "none"
  /\ ctx.ts0 = "Current"
  /\ ctx.ts1 = "Goal"
  /\ ctx.discovered = {"StatesDiscoverCurrent", "StatesDiscoverGoal"}
  /\ ctx.file_current = FileWith([i \in Items |-> "vec_0"])
  /\ ctx.file_goal = FileWith([i \in Items |-> "vec_4"])
  /\ \A i \in Items : ctx.live[i] = "vec_4"
  /\ \A i \in Items : ctx.state_diffs[i] # <<>>

\* C32 witness: a diff of the stored states has returned without any
\* discovery.
C32_WitnessStored ==
  /\ ctx.pc = "diff_cmd_done"
  /\ ctx.error = "none"
  /\ ctx.ts0 = "CurrentStored"
  /\ ctx.ts1 = "GoalStored"
  /\ ctx.discovered = {}
  /\ \A i \in Items : ctx.state_diffs[i] # <<>>

\* The profile is among the profiles in scope of the two-profile diff.
ProfileInScope(profile) == profile \in DOMAIN ctx.profile_to_states_current_stored

\* The profile is in scope and has stored current states.
ProfileDiscovered(profile) ==
  ProfileInScope(profile) /\ ctx.profile_to_states_current_stored[profile].some

\* The lookup of the params specs for the diff has found params specs.
ParamsSpecsFoundForDiff ==
  LET params_specs ==
        ParamsSpecsForDiff(ctx.profile_to_params_specs, ctx.profile_a, ctx.profile_b)
  IN params_specs.some /\ params_specs.of.some

\* The error that the lookups of the stored current states of the two
\* profiles are to end with, profile_a first.
ProfileErrorExpected ==
  IF ~ProfileInScope(ctx.profile_a)
  THEN [error |-> "ProfileNotInScope", profile |-> ctx.profile_a]
  ELSE IF ~ProfileDiscovered(ctx.profile_a)
  THEN [error |-> "ProfileStatesCurrentNotDiscovered", profile |-> ctx.profile_a]
  ELSE IF ~ProfileInScope(ctx.profile_b)
  THEN [error |-> "ProfileNotInScope", profile |-> ctx.profile_b]
  ELSE IF ~ProfileDiscovered(ctx.profile_b)
  THEN [error |-> "ProfileStatesCurrentNotDiscovered", profile |-> ctx.profile_b]
  ELSE [error |-> "none", profile |-> NoEntry]

C33_WitnessNotInScope ==
  /\ ctx.pc = "diff_done"
  /\ ProfileDiscovered(ctx.profile_a)
  /\ ctx.diff.error = "ProfileNotInScope"
  /\ ctx.diff.profile = ctx.profile_b

C34_DiffAnyEntries ==
  LET with_diff == {i \in Items : ctx.state_diff_exec[i] = "Some"}
      failed == {i \in Items : ctx.state_diff_exec[i] = "Err"}
  IN (ctx.pc \in {"diff_any", "diff_done"} /\ ctx.diff.error = "none") =>
       /\ StateDiffsFrom(ctx.state_diffs_mut) = with_diff
       /\ Len(ctx.state_diffs_mut) = Cardinality(with_diff)
       /\ (ctx.pc = "diff_done" /\ ctx.returned.status = "Ok") =>
            /\ ctx.returned.state_diffs = with_diff
            /\ failed = {}
            /\ \A i \in Items : ctx.state_diff_exec[i] # "none"
       /\ (ctx.pc = "diff_done" /\ ctx.returned.status = "Err") =>
            /\ Cardinality(failed) = 1
            /\ ctx.returned.state_diffs = {}
            /\ \A i \in failed, j \in Items :
                 StreamOrder(j) > StreamOrder(i) => ctx.state_diff_exec[j] = "none"
       /\ ctx.pc = "diff_done" <=> ctx.returned.status # "none"
       /\ failed # {} => ctx.pc = "diff_done" /\ ctx.returned.status = "Err"

\* C34 witness: diff_any has returned StateDiffs with entries for two items,
\* the state_diff_exec of the third having returned no diff.
C34_Witness ==
  /\ ctx.pc = "diff_done"
  /\ ctx.diff.error = "none"
  /\ ctx.returned.status = "Ok"
  /\ Cardinality(ctx.returned.state_diffs) = 2
  /\ \E i \in Items : ctx.state_diff_exec[i] = "None"

\* C34 witness: diff_any has returned the error of the second item's
\* state_diff_exec, after the first item returned a diff.
C34_WitnessErr ==
  /\ ctx.pc = "diff_done"
  /\ ctx.diff.error = "none"
  /\ ctx.returned.status = "Err"
  /\ ctx.state_diffs_mut # <<>>
  /\ \E i \in Items : ctx.state_diff_exec[i] = "none"

\* The partials, by their position, that come before the first one that
\* outcome_collate rejects.
PartialsBeforeCollateError ==
  {k \in DOMAIN ctx.partials : \A j \in 1..k : ctx.partials[j] # "collate_err"}

\* outcomes_rx_task has received a partial that outcome_collate rejects.
CollateErrorReturned ==
  \E k \in 1..ctx.sent : ctx.partials[k] = "collate_err" /\ k \notin SeqRange(ctx.chan)

\* C35: once outcome_collate has returned an error for a partial, no partial
\* is folded any more, whatever is sent after it: the partials folded are
\* those received before it; the block's wrapper then returns that error as
\* CmdBlockError::Block, not the item errors collected, and the block's
\* outcome is not inserted into the resource map.
C35_CollateErrorIsBlockError ==
  /\ [](ctx.pc \in {"wrapper_join", "wrapper_done"} =>
          /\ CollateErrorReturned =>
               /\ ctx.rx = "err"
               /\ SeqRange(ctx.folded) = PartialsBeforeCollateError
               /\ ~ctx.inserted
               /\ ctx.returned \in {"none", "CmdBlockError::Block"}
          /\ (ctx.pc = "wrapper_done" /\ ctx.returned # "InputFetchError") =>
               (ctx.returned = "CmdBlockError::Block" <=> CollateErrorReturned)
          /\ ctx.inserted => ctx.returned = "Ok")
  /\ [][(ctx.pc = "wrapper_join" /\ ctx.rx = "err") =>
          /\ ctx'.folded = ctx.folded
          /\ ctx'.errors = ctx.errors
          /\ ctx'.rx = "err"]_vars

\* C35 witness: outcome_collate rejected the second partial after an item
\* error was folded; the third partial was sent after that and is not
\* folded, and the block has returned the error of outcome_collate.
C35_Witness ==
  /\ ctx.pc = "wrapper_done"
  /\ ctx.returned = "CmdBlockError::Block"
  /\ ctx.partials = <<"item_err", "collate_err", "ok">>
  /\ ctx.folded = <<1>>
  /\ ctx.chan = <<3>>
  /\ ~ctx.inserted

\* C37: once the wrapped block's `exec` future has completed, the block's
\* wrapper returns: outcomes_rx_task ends, with the channel drained and
\* `recv` returning None, or with the error of outcome_collate, and the join
\* completes, whatever partials were sent and however the two tasks
\* interleaved.
C37_WrapperReturns ==
  /\ (ctx.pc = "wrapper_join" /\ ctx.exec_returned) ~> (ctx.pc = "wrapper_done")
  /\ (ctx.pc = "wrapper_join" /\ ctx.exec_returned) ~> (ctx.rx # "running")
  /\ [](ctx.pc \in {"wrapper_join", "wrapper_done"} =>
          (ctx.rx = "ok" => ctx.exec_returned /\ ctx.chan = <<>>))

\* C37 witness: the block's `exec` sent three partials and completed, the
\* receiving task folded them and ended when `recv` returned None, and the
\* wrapper has returned.
C37_Witness ==
  /\ ctx.pc = "wrapper_done"
  /\ ctx.returned = "Ok"
  /\ ctx.exec_returned
  /\ ctx.rx = "ok"
  /\ ctx.folded = <<1, 2, 3>>
  /\ ctx.chan = <<>>

C36_WitnessBoth ==
  /\ pc = "outcome_fetch"
  /\ cmd.kind = "apply"
  /\ cmd.sync = "Both"
  /\ {"StatesPrevious", "StatesApplied", "StatesGoal"} \subseteq resources.present

\* C38: when an apply that is not dry returns an outcome, states_current.yaml
\* holds the states applied that it returns; for clean states_goal.yaml is
\* left as it was, for ensure it holds the goal states that the command
\* returns. An apply that returns an error writes neither file.
C38_CleanKeepsGoalEnsureWritesBoth ==
  [][(pc # "idle" /\ pc' = "idle" /\ cmd.kind = "apply" /\ ~cmd.dry) =>
       IF result'.status = "Ok"
       THEN /\ states_current_file' = FileWith(result'.value.applied)
            /\ cmd.apply_for = "Clean" => states_goal_file' = states_goal_file
            /\ cmd.apply_for = "Ensure" => states_goal_file' = FileWith(result'.value.goal)
       ELSE /\ states_current_file' = states_current_file
            /\ states_goal_file' = states_goal_file]_vars

\* C38 witness: a clean that is not dry has cleaned every item and returned:
\* states_current.yaml was rewritten and holds the clean states, and
\* states_goal.yaml still holds the goal states stored before.
C38_Witness ==
  /\ pc = "idle"
  /\ result.status = "Ok"
  /\ result.kind = "Complete"
  /\ result.cmd.kind = "apply"
  /\ result.cmd.apply_for = "Clean"
  /\ ~result.cmd.dry
  /\ hist.apply_invoked = Items
  /\ states_current_file = FileWith([i \in Items |-> StateClean])
  /\ states_current_file # hist.current_before
  /\ states_goal_file = hist.goal_before
  /\ StatesStored(states_goal_file) = params

\* C38 witness: an ensure that is not dry has applied every item and
\* returned: states_current.yaml was rewritten, and both files hold the goal
\* states.
C38_WitnessEnsure ==
  /\ pc = "idle"
  /\ result.status = "Ok"
  /\ result.kind = "Complete"
  /\ result.cmd.kind = "apply"
  /\ result.cmd.apply_for = "Ensure"
  /\ ~result.cmd.dry
  /\ hist.apply_invoked = Items
  /\ states_current_file # hist.current_before
  /\ states_current_file = FileWith(params)
  /\ states_goal_file = FileWith(params)

====
